---- MODULE Spec2Model ----
(***************************************************************************)
(* turboCommit, src/jj.rs: the revision resolver                           *)
(* (resolve_revision_to_commit_id and the callers' lookup of the resolved  *)
(* commit), the binary-content heuristic (is_binary_content) and the       *)
(* unified-diff formatter of get_jj_diff and get_jj_diff_for_files         *)
(* (format_addition, format_deletion, format_unified_diff); src/actor.rs   *)
(* and src/util.rs: the interactive loop of Actor::start with              *)
(* choose_message and process_response; src/cli.rs: the argument loop of   *)
(* Options::new.                                                           *)
(*                                                                         *)
(* Strings are sequences of one-character strings, byte buffers are        *)
(* sequences of integers.  A CommitId and a ChangeId are byte sequences,   *)
(* as in jj_lib; hex() and reverse_hex() encode them.                      *)
(***************************************************************************)
EXTENDS Integers, Sequences, FiniteSets, TLC

VARIABLES
    \* ---- repository snapshot read by the resolver
    heads,          \* view.heads(): set of CommitId
    store,          \* store.get_commit: CommitId -> commit, for the ids it can load
    rev,            \* the revision string given by the caller
    \* ---- resolve_revision_to_commit_id
    rpc,            \* position in the caller / the resolver
    to_visit,       \* Vec<CommitId>, used as a stack
    visited,        \* HashSet<CommitId>
    commit_matches, \* Vec<CommitId>
    loaded,         \* the ids handed to store.get_commit by the search, in order
    fast_path,      \* TRUE once line 96 returned the parsed id
    resolved,       \* result of resolve_revision_to_commit_id
    outcome,        \* result of the caller's `let commit = ...` block
    \* ---- is_binary_content
    content,        \* the buffer handed to is_binary_content
    bpc,
    is_binary,      \* its return value
    \* ---- get_jj_diff
    parent_tree,    \* path -> tree value of commit.parent_tree()
    tree,           \* path -> tree value of commit.tree()
    entries,        \* the TreeDiffEntry rows still to be formatted
    diff_result,    \* the String built by get_jj_diff, as a sequence of lines
    emitted,        \* path -> the lines pushed for that path
    reads,          \* path -> number of content reads made for that path
    filtered,       \* TRUE in get_jj_diff_for_files, FALSE in get_jj_diff
    files,          \* the `files` argument of get_jj_diff_for_files
    unreadable,     \* the ids whose read fails in the store
    diff_outcome,   \* the anyhow::Result<String> handed to the caller
    dpc,
    \* ---- Actor::start
    vcs_type,       \* self.vcs_type
    messages,       \* self.messages, the transcript
    suggestions,    \* the formatted choices of the last completion
    message,        \* the current message
    picked,         \* the index typed at the last message selection
    instruction,    \* the text typed at the last "Revise:" input
    editor_text,    \* the text the editor returned last
    last_request,   \* the transcript of the last request sent by ask()
    n_requests,     \* the number of requests sent by ask()
    first_count,    \* the number of suggestions of the first completion
    first_nonempty, \* TRUE when one of them is a non-empty text
    notices,        \* "No revision suggestions produced" lines printed
    edits,          \* the number of times the editor was opened
    rounds,         \* the number of Edit and Revise tasks chosen
    vcs_calls,      \* the calls of git::commit / jj::set_jj_description
    exit_by,        \* what ended start()
    result,         \* how start() ended
    apc,
    \* ---- Options::new
    args,           \* the `args` iterator, the program name first
    conf,           \* the Config handed to Options::new
    arg_pos,        \* the index of the argument iter.next() yields next
    opts,           \* the Options being built
    msg,            \* the message words collected so far
    cpc

vars == <<heads, store, rev, rpc, to_visit, visited, commit_matches, loaded,
          fast_path, resolved, outcome, content, bpc, is_binary,
          parent_tree, tree, entries, diff_result, emitted, reads,
          filtered, files, unreadable, diff_outcome, dpc,
          vcs_type, messages, suggestions, message, picked, instruction,
          editor_text, last_request, n_requests, first_count, first_nonempty,
          notices, edits, rounds, vcs_calls, exit_by, result, apc,
          args, conf, arg_pos, opts, msg, cpc>>

resolverVars == <<heads, store, rev, rpc, to_visit, visited, commit_matches,
                  loaded, fast_path, resolved, outcome>>
binaryVars == <<content, bpc, is_binary>>
diffVars == <<parent_tree, tree, entries, diff_result, emitted, reads,
              filtered, files, unreadable, diff_outcome, dpc>>
actorVars == <<vcs_type, messages, suggestions, message, picked, instruction,
               editor_text, last_request, n_requests, first_count, first_nonempty,
               notices, edits, rounds, vcs_calls, exit_by, result, apc>>
cliVars == <<args, conf, arg_pos, opts, msg, cpc>>

-----------------------------------------------------------------------------
(* Bounds of the model *)

\* longest revision string tried
MaxQueryLen == 4

\* longest file content, in bytes
MaxLen == 3

\* most suggestions in one completion
MaxSuggestions == 2

\* most Edit and Revise tasks in one run of the interactive loop
MaxRounds == 2

\* most arguments after the program name
MaxArgs == 3

-----------------------------------------------------------------------------
(* Characters and strings *)

Min(a, b) == IF a < b THEN a ELSE b
Max(a, b) == IF a < b THEN b ELSE a

SeqsUpTo(S, n) == UNION {[1..k -> S] : k \in 0..n}

Range(f) == {f[i] : i \in DOMAIN f}

\* the characters revision strings are built from: hex digits in both cases
\* and a reverse-hex digit
QueryChars == {"a", "b", "A", "z"}

\* char::to_lowercase on the characters of the model
to_lowercase_char(c) ==
    CASE c = "A" -> "a"
      [] c = "B" -> "b"
      [] c = "Z" -> "z"
      [] c = "K" -> "k"
      [] OTHER -> c

\* str::to_lowercase (jj.rs:107, 127, 128)
to_lowercase(s) == [i \in 1..Len(s) |-> to_lowercase_char(s[i])]

\* char::is_alphanumeric on the characters of the model
is_alphanumeric(c) ==
    c \in {"a", "b", "k", "z", "A", "B", "K", "Z", "0", "1", "9", "f"}

\* str::starts_with
starts_with(s, prefix) ==
    /\ Len(prefix) <= Len(s)
    /\ \A i \in 1..Len(prefix) : s[i] = prefix[i]

-----------------------------------------------------------------------------
(* Object ids: jj_lib::object_id and jj_lib::hex_util, called at            *)
(* jj.rs:95, 123 and 124                                                    *)

HexDigits == <<"0", "1", "2", "3", "4", "5", "6", "7",
               "8", "9", "a", "b", "c", "d", "e", "f">>

\* the digits of the "reverse hex" encoding of a ChangeId: 0 is z, 15 is k
ReverseHexDigits == <<"z", "y", "x", "w", "v", "u", "t", "s",
                      "r", "q", "p", "o", "n", "m", "l", "k">>

None == [some |-> FALSE, val |-> <<>>]
Some(v) == [some |-> TRUE, val |-> v]

\* value of one hex digit, either case; -1 for any other character
hex_value(c) ==
    IF \E d \in 1..16 : HexDigits[d] = to_lowercase_char(c)
    THEN (CHOOSE d \in 1..16 : HexDigits[d] = to_lowercase_char(c)) - 1
    ELSE -1

\* ObjectId::hex(): two lower-case hex digits per byte (jj.rs:124)
hex(id) ==
    [i \in 1..(2 * Len(id)) |->
        IF i % 2 = 1 THEN HexDigits[(id[(i + 1) \div 2] \div 16) + 1]
                     ELSE HexDigits[(id[i \div 2] % 16) + 1]]

\* ChangeId::reverse_hex(): the same with the z..k digits (jj.rs:123)
reverse_hex(id) ==
    [i \in 1..(2 * Len(id)) |->
        IF i % 2 = 1 THEN ReverseHexDigits[(id[(i + 1) \div 2] \div 16) + 1]
                     ELSE ReverseHexDigits[(id[i \div 2] % 16) + 1]]

\* a mutant of try_from_hex: never parse
try_from_hex_never(s) == None

\* CommitId::try_from_hex (jj.rs:95) is hex_util::decode_hex(hex).map(Self):
\* it decodes ANY string of an even number of hex digits, of either case and
\* of any length, the empty string included; the id type has no fixed width
try_from_hex(s) ==
    IF Len(s) % 2 = 0 /\ \A i \in 1..Len(s) : hex_value(s[i]) >= 0
    THEN Some([k \in 1..(Len(s) \div 2) |->
                  16 * hex_value(s[2 * k - 1]) + hex_value(s[2 * k])])
    ELSE None

-----------------------------------------------------------------------------
(* validate_revision_id, jj.rs:67-86.  No function of jj.rs calls it.       *)

validate_revision_id(r) ==
    IF Len(r) = 0 THEN "Revision cannot be empty"
    ELSE IF ~ \A i \in 1..Len(r) :
                \/ is_alphanumeric(r[i])
                \/ r[i] \in {"-", "_", ".", ":"}
         THEN "Revision contains invalid characters"
         ELSE "Ok"

-----------------------------------------------------------------------------
(* The commit graphs and revision strings of the model *)

\* commit ids aabb, abaa and bbaa: the first two share the prefix "a" and
\* differ at the second character
CommitX == <<170, 187>>
CommitY == <<171, 170>>
CommitZ == <<187, 170>>
Commits == {CommitX, CommitY, CommitZ}

\* change ids zz, zk and zz: X and Z are two commits of one (divergent) change
ChangeIdOf(c) == IF c = CommitY THEN <<15>> ELSE <<0>>

\* parent lists: none, one, a merge, a commit reachable along two paths
\* (X -> Y -> Z with X -> Z) and a cycle (X -> Y -> X)
ParentMaps ==
    {[c \in Commits |-> IF c = CommitX THEN px ELSE IF c = CommitY THEN py ELSE <<>>] :
        px \in {<<>>, <<CommitY>>, <<CommitZ>>, <<CommitY, CommitZ>>},
        py \in {<<>>, <<CommitZ>>, <<CommitX>>}}

\* the ids the store cannot load (dangling references)
MissingSets == {{}, {CommitY}, {CommitZ}}

HeadSets == {{CommitX}, {CommitX, CommitY}}

WorkingCopy == <<"@">>

\* revision strings with a character validate_revision_id rejects
InvalidQueries == {<<"|">>, <<"a", "|">>, <<"a", " ", "b">>}

Queries == SeqsUpTo(QueryChars, MaxQueryLen) \cup InvalidQueries \cup {WorkingCopy}

\* the orders in which a HashSet of ids can be iterated
Orders(S) ==
    {o \in [1..Cardinality(S) -> S] : \A i, j \in 1..Cardinality(S) : o[i] = o[j] => i = j}

Ok(id) == [kind |-> "Ok", id |-> id]
Err(kind) == [kind |-> kind, id |-> <<>>]
NoResult == [kind |-> "none", id |-> <<>>]

InitResolverIdle ==
    /\ heads = {}
    /\ store = <<>>
    /\ rev = <<>>
    /\ rpc = "idle"
    /\ to_visit = <<>>
    /\ visited = {}
    /\ commit_matches = <<>>
    /\ loaded = <<>>
    /\ fast_path = FALSE
    /\ resolved = NoResult
    /\ outcome = NoResult

InitResolver ==
    /\ heads \in HeadSets
    /\ \E parents \in ParentMaps, missing \in MissingSets :
          store = [c \in Commits \ missing |->
                      [change_id |-> ChangeIdOf(c), parent_ids |-> parents[c]]]
    /\ rev \in Queries
    /\ rpc = "caller"
    /\ to_visit = <<>>
    /\ visited = {}
    /\ commit_matches = <<>>
    /\ loaded = <<>>
    /\ fast_path = FALSE
    /\ resolved = NoResult
    /\ outcome = NoResult


-----------------------------------------------------------------------------
(* resolve_revision_to_commit_id, jj.rs:90-162, and the block of its        *)
(* callers that turns the revision into a commit (jj.rs:363-375; the same   *)
(* lines at 180-192, 639-651, 694-704 and 788-800)                          *)

\* a mutant of matches: the change id is not compared
matches_commit_id_only(commit_id, change_id, rev_lower) ==
    starts_with(to_lowercase(hex(commit_id)), rev_lower)

\* jj.rs:122-138: the commit matches when its lower-cased commit-id hex or
\* its lower-cased change-id reverse hex starts with the lower-cased revision
matches(commit_id, change_id, rev_lower) ==
    \/ starts_with(to_lowercase(hex(commit_id)), rev_lower)
    \/ starts_with(to_lowercase(reverse_hex(change_id)), rev_lower)

\* the parents pushed at jj.rs:140-144, in order
RECURSIVE push_unvisited(_, _, _)
push_unvisited(stack, ids, seen) ==
    IF ids = <<>> THEN stack
    ELSE push_unvisited(IF Head(ids) \in seen THEN stack ELSE Append(stack, Head(ids)),
                        Tail(ids), seen)

\* Vec::pop takes the last element
Top(stack) == stack[Len(stack)]
Pop(stack) == SubSeq(stack, 1, Len(stack) - 1)

\* jj.rs:364-370: the revision "@" (also the default) is the working-copy
\* commit of the view; the resolver is not called
UseWorkingCopy ==
    /\ rpc = "caller"
    /\ rev = WorkingCopy
    /\ outcome' = IF CommitX \in DOMAIN store THEN Ok(CommitX) ELSE Err("ObjectNotFound")
    /\ rpc' = "done"
    /\ UNCHANGED <<loaded, heads, store, rev, to_visit, visited, commit_matches, fast_path, resolved>>
    /\ UNCHANGED <<binaryVars, diffVars, actorVars, cliVars>>

\* jj.rs:373 and 94-97: the revision parses as hex and is returned at once
ResolveFastPath ==
    /\ rpc = "caller"
    /\ rev # WorkingCopy
    /\ try_from_hex(rev).some
    /\ resolved' = Ok(try_from_hex(rev).val)
    /\ fast_path' = TRUE
    /\ rpc' = "get_commit"
    /\ UNCHANGED <<loaded, heads, store, rev, to_visit, visited, commit_matches, outcome>>
    /\ UNCHANGED <<binaryVars, diffVars, actorVars, cliVars>>

\* jj.rs:99-114: otherwise the heads are pushed, in the set's iteration order
ResolveStartSearch ==
    /\ rpc = "caller"
    /\ rev # WorkingCopy
    /\ ~ try_from_hex(rev).some
    /\ \E order \in Orders(heads) : to_visit' = push_unvisited(<<>>, order, visited)
    /\ rpc' = "search"
    /\ UNCHANGED <<loaded, heads, store, rev, visited, commit_matches, fast_path, resolved, outcome>>
    /\ UNCHANGED <<binaryVars, diffVars, actorVars, cliVars>>

\* jj.rs:116-119: an id that was visited already is dropped
VisitSkip ==
    /\ rpc = "search"
    /\ to_visit # <<>>
    /\ Top(to_visit) \in visited
    /\ to_visit' = Pop(to_visit)
    /\ UNCHANGED <<loaded, heads, store, rev, rpc, visited, commit_matches, fast_path, resolved, outcome>>
    /\ UNCHANGED <<binaryVars, diffVars, actorVars, cliVars>>

\* jj.rs:121: `if let Ok(commit) = store.get_commit(..)` has no else branch:
\* an id that cannot be loaded is marked visited and nothing else happens
VisitUnloadable ==
    /\ rpc = "search"
    /\ to_visit # <<>>
    /\ Top(to_visit) \notin visited
    /\ Top(to_visit) \notin DOMAIN store
    /\ visited' = visited \cup {Top(to_visit)}
    /\ loaded' = Append(loaded, Top(to_visit))
    /\ to_visit' = Pop(to_visit)
    /\ UNCHANGED <<heads, store, rev, rpc, commit_matches, fast_path, resolved, outcome>>
    /\ UNCHANGED <<binaryVars, diffVars, actorVars, cliVars>>

\* a mutant of VisitCommit: the id is not entered into the visited set
VisitCommit_forgets_visit ==
    /\ rpc = "search"
    /\ to_visit # <<>>
    /\ Top(to_visit) \notin visited
    /\ Top(to_visit) \in DOMAIN store
    /\ LET commit_id == Top(to_visit)
           commit == store[commit_id]
       IN /\ visited' = visited
          /\ loaded' = Append(loaded, commit_id)
          /\ commit_matches' =
                IF matches(commit_id, commit.change_id, to_lowercase(rev))
                THEN Append(commit_matches, commit_id)
                ELSE commit_matches
          /\ to_visit' = push_unvisited(Pop(to_visit), commit.parent_ids, visited')
    /\ UNCHANGED <<heads, store, rev, rpc, fast_path, resolved, outcome>>
    /\ UNCHANGED <<binaryVars, diffVars, actorVars, cliVars>>

\* jj.rs:121-145: the commit is tested and its unvisited parents are pushed
VisitCommit ==
    /\ rpc = "search"
    /\ to_visit # <<>>
    /\ Top(to_visit) \notin visited
    /\ Top(to_visit) \in DOMAIN store
    /\ LET commit_id == Top(to_visit)
           commit == store[commit_id]
       IN /\ visited' = visited \cup {commit_id}
          /\ loaded' = Append(loaded, commit_id)
          /\ commit_matches' =
                IF matches(commit_id, commit.change_id, to_lowercase(rev))
                THEN Append(commit_matches, commit_id)
                ELSE commit_matches
          /\ to_visit' = push_unvisited(Pop(to_visit), commit.parent_ids, visited')
    /\ UNCHANGED <<heads, store, rev, rpc, fast_path, resolved, outcome>>
    /\ UNCHANGED <<binaryVars, diffVars, actorVars, cliVars>>

\* jj.rs:148-161, and the `?` of the caller on an error
ResolveFinish ==
    /\ rpc = "search"
    /\ to_visit = <<>>
    /\ resolved' = IF Len(commit_matches) = 1 THEN Ok(commit_matches[1])
                   ELSE IF commit_matches = <<>> THEN Err("NotFound")
                   ELSE Err("Ambiguous")
    /\ IF Len(commit_matches) = 1
       THEN rpc' = "get_commit" /\ outcome' = outcome
       ELSE rpc' = "done" /\ outcome' = resolved'
    /\ UNCHANGED <<loaded, heads, store, rev, to_visit, visited, commit_matches, fast_path>>
    /\ UNCHANGED <<binaryVars, diffVars, actorVars, cliVars>>

\* jj.rs:374: repo.store().get_commit(&commit_id)?
CallerGetCommit ==
    /\ rpc = "get_commit"
    /\ outcome' = IF resolved.id \in DOMAIN store THEN Ok(resolved.id)
                  ELSE Err("ObjectNotFound")
    /\ rpc' = "done"
    /\ UNCHANGED <<loaded, heads, store, rev, to_visit, visited, commit_matches, fast_path, resolved>>
    /\ UNCHANGED <<binaryVars, diffVars, actorVars, cliVars>>


-----------------------------------------------------------------------------
(* is_binary_content, jj.rs:14-22 *)

BINARY_CHECK_BYTES == 8000

\* a mutant of is_binary_content: the whole buffer is searched
is_binary_content_whole_buffer(bytes) ==
    \E i \in 1..Len(bytes) : bytes[i] = 0

\* content[..check_len].contains(&0)
is_binary_content(bytes) ==
    LET check_len == Min(Len(bytes), BINARY_CHECK_BYTES)
    IN \E i \in 1..check_len : bytes[i] = 0

\* a buffer of n bytes 'A' with zero bytes at the 0-based indices in zeros
Buffer(n, zeros) == [i \in 1..n |-> IF (i - 1) \in zeros THEN 0 ELSE 65]

\* buffers around both ends of the inspected prefix
Buffers ==
    {Buffer(n, zeros) : n \in {0, 1, 2, 7999, 8000, 8001, 8002},
                        zeros \in SUBSET {0, 1, 7998, 7999, 8000, 8001}}

InitBinary ==
    /\ content \in Buffers
    /\ bpc = "call"
    /\ is_binary = FALSE

CallIsBinaryContent ==
    /\ bpc = "call"
    /\ is_binary' = is_binary_content(content)
    /\ bpc' = "returned"
    /\ UNCHANGED <<content, resolverVars, diffVars, actorVars, cliVars>>

-----------------------------------------------------------------------------
(* Text of file contents: String::from_utf8_lossy and str::lines,           *)
(* jj.rs:549-550, 561-562, 573-577                                          *)

\* the bytes file contents are built from: NUL, line feed and 'a'
ContentBytes == {0, 10, 97}

\* the character of one byte (all bytes of the model are ASCII, so
\* from_utf8_lossy replaces nothing)
utf8_char(b) ==
    CASE b = 0 -> "NUL"
      [] b = 10 -> "LF"
      [] b = 97 -> "a"
      [] b = 120 -> "x"
      [] b = 121 -> "y"
      [] OTHER -> "?"

from_utf8_lossy(bytes) == [i \in 1..Len(bytes) |-> utf8_char(bytes[i])]

\* str::lines: the text is cut after every line feed and the line feed is
\* dropped; a last line without line feed counts, an empty rest does not.
\* (The model has no carriage return, which lines() strips before "\n".)
RECURSIVE lines(_)
lines(text) ==
    IF text = <<>> THEN <<>>
    ELSE IF \E i \in 1..Len(text) : text[i] = "LF"
    THEN LET k == CHOOSE i \in 1..Len(text) :
                     text[i] = "LF" /\ \A j \in 1..(i - 1) : text[j] # "LF"
         IN <<SubSeq(text, 1, k - 1)>> \o lines(SubSeq(text, k + 1, Len(text)))
    ELSE <<text>>

-----------------------------------------------------------------------------
(* The lines of the diff text.  A line is a sequence of tokens whose first   *)
(* token tells its kind; the "\n" that ends every line is left out.          *)

DiffGitLine(path) == <<"diff --git ", "a/", path, " ", "b/", path>>
DeletedFileModeLine == <<"deleted file mode 100644">>
NewFileModeLine == <<"new file mode 100644">>
OldModeLine(mode) == <<"old mode ", mode>>
NewModeLine(mode) == <<"new mode ", mode>>
MinusALine(path) == <<"--- ", "a/", path>>
MinusNullLine == <<"--- ", "/dev/null">>
PlusBLine(path) == <<"+++ ", "b/", path>>
PlusNullLine == <<"+++ ", "/dev/null">>
BinaryFileLine(path, what) == <<"Binary file ", path, " ", what>>
HunkLine(a, b, c, d) ==
    <<"@@ -", ToString(a), ",", ToString(b), " +", ToString(c), ",", ToString(d), " @@">>
SymlinkHunkLine == <<"@@ -1 +1 @@">>
FileTypeChangedLine == <<"File type changed">>
RemovedLine(line) == <<"-">> \o line
AddedLine(line) == <<"+">> \o line

-----------------------------------------------------------------------------
(* format_addition, format_deletion, format_unified_diff, jj.rs:547-621 *)

\* a mutant of format_addition: the hunk is said to start at line 0
format_addition_from_zero(bytes) ==
    LET ls == lines(from_utf8_lossy(bytes))
    IN <<HunkLine(0, 0, 0, Len(ls))>> \o [i \in 1..Len(ls) |-> AddedLine(ls[i])]

\* jj.rs:548-557
format_addition(bytes) ==
    LET ls == lines(from_utf8_lossy(bytes))
    IN <<HunkLine(0, 0, 1, Len(ls))>> \o [i \in 1..Len(ls) |-> AddedLine(ls[i])]

\* a mutant of format_deletion: the count is the length of the content
format_deletion_byte_count(bytes) ==
    LET ls == lines(from_utf8_lossy(bytes))
    IN <<HunkLine(1, Len(bytes), 0, 0)>> \o [i \in 1..Len(ls) |-> RemovedLine(ls[i])]

\* jj.rs:560-569
format_deletion(bytes) ==
    LET ls == lines(from_utf8_lossy(bytes))
    IN <<HunkLine(1, Len(ls), 0, 0)>> \o [i \in 1..Len(ls) |-> RemovedLine(ls[i])]

\* Vec::get(i).unwrap_or(&""), with the 0-based index of the code
line_or_empty(ls, i) == IF i < Len(ls) THEN ls[i + 1] ELSE <<>>

\* a mutant of hunk_end: the hunk is closed after one index
hunk_end_single_index(source_lines, target_lines, i) == i + 1

\* jj.rs:589-594: the index at which the inner loop started at i stops
RECURSIVE hunk_end(_, _, _)
hunk_end(source_lines, target_lines, i) ==
    IF /\ i < Max(Len(source_lines), Len(target_lines))
       /\ line_or_empty(source_lines, i) # line_or_empty(target_lines, i)
    THEN hunk_end(source_lines, target_lines, i + 1)
    ELSE i

\* a mutant of hunk_body: the "+" line comes before the "-" line
RECURSIVE hunk_body_added_first(_, _, _, _)
hunk_body_added_first(source_lines, target_lines, j, stop) ==
    IF j >= stop THEN <<>>
    ELSE LET source_line == line_or_empty(source_lines, j)
             target_line == line_or_empty(target_lines, j)
         IN (IF target_line # <<>> THEN <<AddedLine(target_line)>> ELSE <<>>)
            \o (IF source_line # <<>> THEN <<RemovedLine(source_line)>> ELSE <<>>)
            \o hunk_body_added_first(source_lines, target_lines, j + 1, stop)

\* a mutant of hunk_body: only the "-" lines are written
RECURSIVE hunk_body_removed_only(_, _, _, _)
hunk_body_removed_only(source_lines, target_lines, j, stop) ==
    IF j >= stop THEN <<>>
    ELSE LET source_line == line_or_empty(source_lines, j)
         IN (IF source_line # <<>> THEN <<RemovedLine(source_line)>> ELSE <<>>)
            \o hunk_body_removed_only(source_lines, target_lines, j + 1, stop)

\* jj.rs:605-614: the lines of the indices j..(stop - 1)
RECURSIVE hunk_body(_, _, _, _)
hunk_body(source_lines, target_lines, j, stop) ==
    IF j >= stop THEN <<>>
    ELSE LET source_line == line_or_empty(source_lines, j)
             target_line == line_or_empty(target_lines, j)
         IN (IF source_line # <<>> THEN <<RemovedLine(source_line)>> ELSE <<>>)
            \o (IF target_line # <<>> THEN <<AddedLine(target_line)>> ELSE <<>>)
            \o hunk_body(source_lines, target_lines, j + 1, stop)

\* a mutant of unified_from: the scan stops at the end of the shorter side
RECURSIVE unified_from_common_lines(_, _, _)
unified_from_common_lines(source_lines, target_lines, i) ==
    IF i >= Min(Len(source_lines), Len(target_lines)) THEN <<>>
    ELSE IF line_or_empty(source_lines, i) # line_or_empty(target_lines, i)
    THEN LET hunk_start == i
             stop == hunk_end(source_lines, target_lines, i)
             hunk_len == stop - hunk_start
         IN <<HunkLine(hunk_start + 1, hunk_len, hunk_start + 1, hunk_len)>>
            \o hunk_body(source_lines, target_lines, hunk_start, hunk_start + hunk_len)
            \o unified_from_common_lines(source_lines, target_lines, stop)
    ELSE unified_from_common_lines(source_lines, target_lines, i + 1)

\* jj.rs:582-618: the outer loop from index i on
RECURSIVE unified_from(_, _, _)
unified_from(source_lines, target_lines, i) ==
    IF i >= Max(Len(source_lines), Len(target_lines)) THEN <<>>
    ELSE IF line_or_empty(source_lines, i) # line_or_empty(target_lines, i)
    THEN LET hunk_start == i
             stop == hunk_end(source_lines, target_lines, i)
             hunk_len == stop - hunk_start
         IN <<HunkLine(hunk_start + 1, hunk_len, hunk_start + 1, hunk_len)>>
            \o hunk_body(source_lines, target_lines, hunk_start, hunk_start + hunk_len)
            \o unified_from(source_lines, target_lines, stop)
    ELSE unified_from(source_lines, target_lines, i + 1)

\* jj.rs:572-621
format_unified_diff(source, target) ==
    unified_from(lines(from_utf8_lossy(source)), lines(from_utf8_lossy(target)), 0)

-----------------------------------------------------------------------------
(* Trees.  The store is content-addressed: a FileId or SymlinkId stands for *)
(* exactly one content, so the model writes an id as the blob it names.     *)

FileId(bytes) == [blob |-> bytes]
SymlinkId(bytes) == [blob |-> bytes]

\* Option<TreeValue> of a path, or a conflict (as_resolved() is None)
Absent == [kind |-> "Absent", id |-> FileId(<<>>), executable |-> FALSE]
File(bytes, exec) == [kind |-> "File", id |-> FileId(bytes), executable |-> exec]
Symlink(bytes) == [kind |-> "Symlink", id |-> SymlinkId(bytes), executable |-> FALSE]
Conflicted == [kind |-> "Conflict", id |-> FileId(<<>>), executable |-> FALSE]

\* read_file_content, jj.rs:526-535
read_file_content(file_id) == file_id.blob

\* read_symlink, jj.rs:538-545
read_symlink(symlink_id) == from_utf8_lossy(symlink_id.blob)

Contents == SeqsUpTo(ContentBytes, MaxLen)

\* symlink targets "x" and "y"
SymlinkTargets == {<<120>>, <<121>>}

TreeValues ==
    {Absent, Conflicted}
        \cup {File(c, x) : c \in Contents, x \in BOOLEAN}
        \cup {Symlink(t) : t \in SymlinkTargets}

\* the paths of the trees, in the order of tree iteration
Paths == <<"a.txt", "b.txt">>

\* the second path is unchanged or a deleted text file
SecondPathChanges == {<<Absent, Absent>>, <<File(<<97, 10>>, FALSE), Absent>>}

\* MergedTree::diff_stream with the EverythingMatcher, collected
\* (jj.rs:386-391): one entry for every path whose value differs, in path order
diff_stream(before, after) ==
    LET changed(i) == before[Paths[i]] # after[Paths[i]]
        RECURSIVE from(_)
        from(i) ==
            IF i > Len(Paths) THEN <<>>
            ELSE (IF changed(i)
                  THEN <<[path |-> Paths[i], before |-> before[Paths[i]],
                          after |-> after[Paths[i]]]>>
                  ELSE <<>>) \o from(i + 1)
    IN from(1)

-----------------------------------------------------------------------------
(* get_jj_diff, jj.rs:348-523: the text pushed for one entry *)

\* a mutant of section_deleted: the header is pushed before the content is
\* classified
section_deleted_header_first(path, bytes) ==
    <<DiffGitLine(path), DeletedFileModeLine, MinusALine(path), PlusNullLine>>
        \o (IF is_binary_content(bytes)
            THEN <<BinaryFileLine(path, "deleted")>>
            ELSE format_deletion(bytes))

\* a mutant of section_deleted: the hunk of a text file comes before its header
section_deleted_hunk_first(path, bytes) ==
    IF is_binary_content(bytes)
    THEN <<BinaryFileLine(path, "deleted")>>
    ELSE format_deletion(bytes)
            \o <<DiffGitLine(path), DeletedFileModeLine, MinusALine(path), PlusNullLine>>

\* jj.rs:407-424
section_deleted(path, bytes) ==
    IF is_binary_content(bytes)
    THEN <<BinaryFileLine(path, "deleted")>>
    ELSE <<DiffGitLine(path), DeletedFileModeLine, MinusALine(path), PlusNullLine>>
            \o format_deletion(bytes)

\* jj.rs:427-444
section_added(path, bytes) ==
    IF is_binary_content(bytes)
    THEN <<BinaryFileLine(path, "added")>>
    ELSE <<DiffGitLine(path), NewFileModeLine, MinusNullLine, PlusBLine(path)>>
            \o format_addition(bytes)

\* a mutant of section_modified: the mode pair comes after the ---/+++ lines
section_modified_modes_last(path, source_content, source_exec, target_content, target_exec) ==
    IF is_binary_content(source_content) \/ is_binary_content(target_content)
    THEN <<BinaryFileLine(path, "modified")>>
    ELSE <<DiffGitLine(path), MinusALine(path), PlusBLine(path)>>
            \o (IF source_exec # target_exec
                THEN IF target_exec
                     THEN <<OldModeLine("100644"), NewModeLine("100755")>>
                     ELSE <<OldModeLine("100755"), NewModeLine("100644")>>
                ELSE <<>>)
            \o format_unified_diff(source_content, target_content)

\* jj.rs:458-489
section_modified(path, source_content, source_exec, target_content, target_exec) ==
    IF is_binary_content(source_content) \/ is_binary_content(target_content)
    THEN <<BinaryFileLine(path, "modified")>>
    ELSE <<DiffGitLine(path)>>
            \o (IF source_exec # target_exec
                THEN IF target_exec
                     THEN <<OldModeLine("100644"), NewModeLine("100755")>>
                     ELSE <<OldModeLine("100755"), NewModeLine("100644")>>
                ELSE <<>>)
            \o <<MinusALine(path), PlusBLine(path)>>
            \o format_unified_diff(source_content, target_content)

\* a mutant of section_symlink: the new target is written first
section_symlink_new_target_first(path, source_target, target_target) ==
    <<DiffGitLine(path), MinusALine(path), PlusBLine(path), SymlinkHunkLine,
      AddedLine(target_target), RemovedLine(source_target)>>

\* jj.rs:495-505
section_symlink(path, source_target, target_target) ==
    <<DiffGitLine(path), MinusALine(path), PlusBLine(path), SymlinkHunkLine,
      RemovedLine(source_target), AddedLine(target_target)>>

\* jj.rs:508-515
section_type_changed(path) ==
    <<DiffGitLine(path), MinusALine(path), PlusBLine(path), FileTypeChangedLine>>

\* the arm of the match at jj.rs:405 that takes the entry
Arm(entry) ==
    LET b == entry.before
        a == entry.after
    IN CASE b.kind = "File" /\ a.kind = "Absent" -> "deleted"
         [] b.kind = "Absent" /\ a.kind = "File" -> "added"
         [] b.kind = "File" /\ a.kind = "File"
              /\ (b.id # a.id \/ b.executable # a.executable) -> "modified"
         [] b.kind = "Symlink" /\ a.kind = "Symlink" /\ b.id # a.id -> "symlink"
         [] b.kind \in {"File", "Symlink"} /\ a.kind \in {"File", "Symlink"}
              /\ b.kind # a.kind -> "type_changed"
         [] OTHER -> "nothing"

\* the text the taken arm pushes for the entry
section_of(entry) ==
    LET b == entry.before
        a == entry.after
    IN CASE Arm(entry) = "deleted" ->
              section_deleted(entry.path, read_file_content(b.id))
         [] Arm(entry) = "added" ->
              section_added(entry.path, read_file_content(a.id))
         [] Arm(entry) = "modified" ->
              section_modified(entry.path, read_file_content(b.id), b.executable,
                               read_file_content(a.id), a.executable)
         [] Arm(entry) = "symlink" ->
              section_symlink(entry.path, read_symlink(b.id), read_symlink(a.id))
         [] Arm(entry) = "type_changed" -> section_type_changed(entry.path)
         [] OTHER -> <<>>

\* the number of content reads the taken arm makes
reads_of(entry) ==
    CASE Arm(entry) \in {"deleted", "added"} -> 1
      [] Arm(entry) \in {"modified", "symlink"} -> 2
      [] OTHER -> 0

\* the ids the taken arm reads, in the order of the reads
read_ids(entry) ==
    CASE Arm(entry) = "deleted" -> <<entry.before.id>>
      [] Arm(entry) = "added" -> <<entry.after.id>>
      [] Arm(entry) \in {"modified", "symlink"} -> <<entry.before.id, entry.after.id>>
      [] OTHER -> <<>>

\* every `?` on a read of the arm passes
reads_ok(entry) == \A i \in 1..Len(read_ids(entry)) : read_ids(entry)[i] \notin unreadable

\* the reads made up to and including the first failing one
reads_until_failure(entry) ==
    IF read_ids(entry)[1] \in unreadable THEN 1 ELSE Len(read_ids(entry))

\* the text an arm has pushed when its first read fails: only the symlink arm
\* pushes its header before it reads (jj.rs:496-502)
partial_of(entry) ==
    IF Arm(entry) = "symlink"
    THEN <<DiffGitLine(entry.path), MinusALine(entry.path), PlusBLine(entry.path),
           SymlinkHunkLine>>
    ELSE <<>>

\* a mutant of selected: the file list is not looked at
selected_ignores_files(entry) == ~ filtered \/ entry.path \in Range(Paths)

\* jj.rs:214: get_jj_diff_for_files goes on with the entries of `files` only
selected(entry) == ~ filtered \/ entry.path \in files

DiffOk(text) == [kind |-> "Ok", text |-> text]
DiffErr == [kind |-> "Err", text |-> <<>>]
NoDiffResult == [kind |-> "none", text |-> <<>>]

InitDiff ==
    /\ filtered = FALSE
    /\ files = {}
    /\ unreadable = {}
    /\ diff_outcome = NoDiffResult
    /\ \E b1, a1 \in TreeValues, second \in SecondPathChanges :
          /\ parent_tree = [p \in Range(Paths) |-> IF p = Paths[1] THEN b1 ELSE second[1]]
          /\ tree = [p \in Range(Paths) |-> IF p = Paths[1] THEN a1 ELSE second[2]]
    /\ entries = <<>>
    /\ diff_result = <<>>
    /\ emitted = [p \in Range(Paths) |-> <<>>]
    /\ reads = [p \in Range(Paths) |-> 0]
    /\ dpc = "start"

\* the tree values of the runs with a file list or with unreadable objects
ScopedValues ==
    {Absent, Conflicted, File(<<>>, FALSE), File(<<97>>, FALSE), File(<<97>>, TRUE),
     File(<<0>>, FALSE), Symlink(<<120>>), Symlink(<<121>>)}

ScopedSecondValues == {Absent, File(<<97>>, FALSE), Symlink(<<120>>)}

\* the file lists: any set of the paths of the trees, with or without a path
\* that is in neither tree
FileLists == {fs \cup extra : fs \in SUBSET Range(Paths), extra \in {{}, {"c.txt"}}}

\* at most one object of the store cannot be read
UnreadableSets ==
    {{}} \cup {{FileId(c)} : c \in {<<>>, <<97>>, <<0>>}}
         \cup {{SymlinkId(t)} : t \in SymlinkTargets}

\* get_jj_diff (filtered = FALSE) or get_jj_diff_for_files (filtered = TRUE)
\* at the point where both trees are loaded
InitDiffScoped ==
    /\ filtered \in BOOLEAN
    /\ files \in FileLists
    /\ ~ filtered => files = {}
    /\ unreadable \in UnreadableSets
    /\ diff_outcome = NoDiffResult
    /\ parent_tree \in {[p \in Range(Paths) |-> IF p = Paths[1] THEN v[1] ELSE v[2]] :
                            v \in ScopedValues \X ScopedSecondValues}
    /\ tree \in {[p \in Range(Paths) |-> IF p = Paths[1] THEN v[1] ELSE v[2]] :
                     v \in ScopedValues \X ScopedSecondValues}
    /\ entries = <<>>
    /\ diff_result = <<>>
    /\ emitted = [p \in Range(Paths) |-> <<>>]
    /\ reads = [p \in Range(Paths) |-> 0]
    /\ dpc = "start"

\* jj.rs:377-391: the trees are diffed and the entries collected
DiffStart ==
    /\ dpc = "start"
    /\ entries' = diff_stream(parent_tree, tree)
    /\ dpc' = "entries"
    /\ UNCHANGED <<parent_tree, tree, diff_result, emitted, reads>>
    /\ UNCHANGED <<filtered, files, unreadable, diff_outcome>>
    /\ UNCHANGED <<resolverVars, binaryVars, actorVars, cliVars>>

\* what every arm of the loop at jj.rs:392-520 does with the first entry:
\* its text is pushed onto diff_result and the loop goes on
PushSection ==
    LET entry == Head(entries)
    IN /\ selected(entry)
       /\ reads_ok(entry)
       /\ diff_result' = diff_result \o section_of(entry)
       /\ emitted' = [emitted EXCEPT ![entry.path] = @ \o section_of(entry)]
       /\ reads' = [reads EXCEPT ![entry.path] = @ + reads_of(entry)]
       /\ entries' = Tail(entries)
       /\ UNCHANGED <<parent_tree, tree, dpc>>
       /\ UNCHANGED <<filtered, files, unreadable, diff_outcome>>
       /\ UNCHANGED <<resolverVars, binaryVars, actorVars, cliVars>>

\* jj.rs:407-424
DiffFileDeleted ==
    /\ dpc = "entries" /\ entries # <<>>
    /\ Arm(Head(entries)) = "deleted"
    /\ PushSection

\* jj.rs:427-444
DiffFileAdded ==
    /\ dpc = "entries" /\ entries # <<>>
    /\ Arm(Head(entries)) = "added"
    /\ PushSection

\* jj.rs:447-489
DiffFileModified ==
    /\ dpc = "entries" /\ entries # <<>>
    /\ Arm(Head(entries)) = "modified"
    /\ PushSection

\* jj.rs:492-505
DiffSymlinkChanged ==
    /\ dpc = "entries" /\ entries # <<>>
    /\ Arm(Head(entries)) = "symlink"
    /\ PushSection

\* jj.rs:508-515
DiffFileTypeChanged ==
    /\ dpc = "entries" /\ entries # <<>>
    /\ Arm(Head(entries)) = "type_changed"
    /\ PushSection

\* jj.rs:518: no text for any other pair of values
DiffNothing ==
    /\ dpc = "entries" /\ entries # <<>>
    /\ Arm(Head(entries)) = "nothing"
    /\ PushSection

\* jj.rs:214-216: an entry outside `files` is skipped before its values are
\* looked at
DiffFilteredOut ==
    /\ dpc = "entries" /\ entries # <<>>
    /\ ~ selected(Head(entries))
    /\ entries' = Tail(entries)
    /\ UNCHANGED <<parent_tree, tree, diff_result, emitted, reads, dpc>>
    /\ UNCHANGED <<filtered, files, unreadable, diff_outcome>>
    /\ UNCHANGED <<resolverVars, binaryVars, actorVars, cliVars>>

\* a mutant of DiffReadFails: the failed read is skipped over and the text
\* built so far is handed back
DiffReadFails_returns_partial ==
    /\ dpc = "entries" /\ entries # <<>>
    /\ selected(Head(entries))
    /\ ~ reads_ok(Head(entries))
    /\ LET entry == Head(entries)
       IN /\ diff_result' = diff_result \o partial_of(entry)
          /\ emitted' = [emitted EXCEPT ![entry.path] = @ \o partial_of(entry)]
          /\ reads' = [reads EXCEPT ![entry.path] = @ + reads_until_failure(entry)]
    /\ diff_outcome' = DiffOk(diff_result')
    /\ dpc' = "failed"
    /\ UNCHANGED <<parent_tree, tree, entries, filtered, files, unreadable>>
    /\ UNCHANGED <<resolverVars, binaryVars, actorVars, cliVars>>

\* the `?` after read_file_content / read_symlink (jj.rs:408, 428, 459-462,
\* 501-502): the error is returned and diff_result, a local, is dropped
DiffReadFails ==
    /\ dpc = "entries" /\ entries # <<>>
    /\ selected(Head(entries))
    /\ ~ reads_ok(Head(entries))
    /\ LET entry == Head(entries)
       IN /\ diff_result' = diff_result \o partial_of(entry)
          /\ emitted' = [emitted EXCEPT ![entry.path] = @ \o partial_of(entry)]
          /\ reads' = [reads EXCEPT ![entry.path] = @ + reads_until_failure(entry)]
    /\ diff_outcome' = DiffErr
    /\ dpc' = "failed"
    /\ UNCHANGED <<parent_tree, tree, entries, filtered, files, unreadable>>
    /\ UNCHANGED <<resolverVars, binaryVars, actorVars, cliVars>>

\* a mutant of DiffReturn: an empty diff is reported as an error
DiffReturn_empty_is_error ==
    /\ dpc = "entries"
    /\ entries = <<>>
    /\ diff_outcome' = IF diff_result = <<>> THEN DiffErr ELSE DiffOk(diff_result)
    /\ dpc' = "returned"
    /\ UNCHANGED <<parent_tree, tree, entries, diff_result, emitted, reads>>
    /\ UNCHANGED <<filtered, files, unreadable>>
    /\ UNCHANGED <<resolverVars, binaryVars, actorVars, cliVars>>

\* jj.rs:522: Ok(diff_result)
DiffReturn ==
    /\ dpc = "entries"
    /\ entries = <<>>
    /\ diff_outcome' = DiffOk(diff_result)
    /\ dpc' = "returned"
    /\ UNCHANGED <<parent_tree, tree, entries, diff_result, emitted, reads>>
    /\ UNCHANGED <<filtered, files, unreadable>>
    /\ UNCHANGED <<resolverVars, binaryVars, actorVars, cliVars>>

-----------------------------------------------------------------------------
(* util::choose_message and util::process_response, util.rs:138-187         *)
(* A text is a sequence of tokens: letters, the white space " " and "\n",   *)
(* and the tags "<think>" and "</think>".                                   *)

is_whitespace(c) == c \in {" ", "\n"}

\* str::trim_matches(char::is_whitespace)
RECURSIVE trim_start(_)
trim_start(text) ==
    IF text # <<>> /\ is_whitespace(Head(text)) THEN trim_start(Tail(text)) ELSE text

RECURSIVE trim_end(_)
trim_end(text) ==
    IF text # <<>> /\ is_whitespace(text[Len(text)])
    THEN trim_end(SubSeq(text, 1, Len(text) - 1)) ELSE text

trim_matches(text) == trim_end(trim_start(text))

\* str::find of a tag: the first position of the token, 0 when there is none
find(text, tag) ==
    IF \E i \in 1..Len(text) : text[i] = tag
    THEN CHOOSE i \in 1..Len(text) : text[i] = tag /\ \A j \in 1..(i - 1) : text[j] # tag
    ELSE 0

Returned(text) == [panicked |-> FALSE, text |-> text]
Panicked == [panicked |-> TRUE, text |-> <<>>]

\* a mutant of process_response: the response is handed on as it came
process_response_raw(response) == Returned(response)

\* util.rs:168-187.  The slice response[think_start + 7..think_end] panics
\* when "</think>" comes before "<think>".
process_response(response) ==
    LET think_start == find(response, "<think>")
        think_end == find(response, "</think>")
    IN IF think_start # 0 /\ think_end # 0
       THEN IF think_end < think_start
            THEN Panicked
            ELSE Returned(trim_matches(SubSeq(response, think_end + 1, Len(response))))
       ELSE Returned(trim_matches(response))

\* the answer to the prompt of choose_message: an index below choices.len()
\* (the validator at util.rs:147-153 lets no other through) or a cancellation
Answers(choices) == {[cancelled |-> FALSE, index |-> i] : i \in 0..(Len(choices) - 1)}
                        \cup {[cancelled |-> TRUE, index |-> 0]}

\* util.rs:138-162: None, or Some of the processed choice
choose_message(choices, answer) ==
    IF Len(choices) = 1 THEN Some(process_response(choices[1]))
    ELSE IF answer.cancelled THEN None
    ELSE Some(process_response(choices[answer.index + 1]))

-----------------------------------------------------------------------------
(* Actor::start, actor.rs:192-325 *)

\* openai::Message::assistant / user / system
assistant(text) == [role |-> "assistant", content |-> text]
user(text) == [role |-> "user", content |-> text]
system(text) == [role |-> "system", content |-> text]

\* the formatted suggestions a completion can hold
RawTexts ==
    {<<>>, <<" ", "b", "\n">>, <<"<think>", "t", "</think>", "\n", "c">>,
     <<"</think>", "<think>">>}

SuggestionLists == SeqsUpTo(RawTexts, MaxSuggestions)

\* what the user types at "Revise:"
Instructions == {<<"i">>}

\* what the editor hands back for a message
EditorTexts(text) == {text, <<"e">>, <<>>}

VcsTypes == {"Git", "Jujutsu"}

\* the transcripts start() can be called with: Actor::new leaves it empty,
\* add_message fills it
InitialTranscripts == {<<>>, <<system(<<"s">>), user(<<"d">>)>>}

VcsCall(vcs, text, ok) == [vcs |-> vcs, message |-> text, ok |-> ok]

InitActorIdle ==
    /\ vcs_type = "Git"
    /\ messages = <<>>
    /\ suggestions = <<>>
    /\ message = <<>>
    /\ picked = 0
    /\ instruction = <<>>
    /\ editor_text = <<>>
    /\ last_request = <<>>
    /\ n_requests = 0
    /\ first_count = 0
    /\ first_nonempty = FALSE
    /\ notices = 0
    /\ edits = 0
    /\ rounds = 0
    /\ vcs_calls = <<>>
    /\ exit_by = "none"
    /\ result = "none"
    /\ apc = "idle"

InitActor ==
    /\ vcs_type \in VcsTypes
    /\ messages \in InitialTranscripts
    /\ suggestions = <<>>
    /\ message = <<>>
    /\ picked = 0
    /\ instruction = <<>>
    /\ editor_text = <<>>
    /\ last_request = <<>>
    /\ n_requests = 0
    /\ first_count = 0
    /\ first_nonempty = FALSE
    /\ notices = 0
    /\ edits = 0
    /\ rounds = 0
    /\ vcs_calls = <<>>
    /\ exit_by = "none"
    /\ result = "none"
    /\ apc = "start"

\* start() is left: return, process::exit or panic
Leave(by, how) ==
    /\ exit_by' = by
    /\ result' = how
    /\ apc' = "done"

\* actor.rs:197: self.ask().await? fails
StartAskFails ==
    /\ apc = "start"
    /\ last_request' = messages
    /\ n_requests' = n_requests + 1
    /\ Leave("Error", "Err")
    /\ UNCHANGED <<vcs_type, messages, suggestions, message, picked, instruction,
                   editor_text, first_count, first_nonempty, notices, edits, rounds,
                   vcs_calls>>
    /\ UNCHANGED <<resolverVars, binaryVars, diffVars, cliVars>>

\* actor.rs:197-202: the first completion and its formatted choices
StartAsk ==
    /\ apc = "start"
    /\ \E choices \in SuggestionLists :
          /\ suggestions' = choices
          /\ first_count' = Len(choices)
          /\ first_nonempty' = (\E i \in 1..Len(choices) : choices[i] # <<>>)
    /\ last_request' = messages
    /\ n_requests' = n_requests + 1
    /\ apc' = "first_choices"
    /\ UNCHANGED <<vcs_type, messages, message, picked, instruction, editor_text,
                   notices, edits, rounds, vcs_calls, exit_by, result>>
    /\ UNCHANGED <<resolverVars, binaryVars, diffVars, cliVars>>

\* a mutant of StartNoSuggestions: the empty list is not tested and the loop
\* starts with an empty message
StartNoSuggestions_enters_loop ==
    /\ apc = "first_choices"
    /\ suggestions = <<>>
    /\ apc' = "prompt"
    /\ UNCHANGED <<vcs_type, messages, suggestions, message, picked, instruction,
                   editor_text, last_request, n_requests, first_count, first_nonempty,
                   notices, edits, rounds, vcs_calls, exit_by, result>>
    /\ UNCHANGED <<resolverVars, binaryVars, diffVars, cliVars>>

\* actor.rs:204-206
StartNoSuggestions ==
    /\ apc = "first_choices"
    /\ suggestions = <<>>
    /\ Leave("NoSuggestions", "Err")
    /\ UNCHANGED <<vcs_type, messages, suggestions, message, picked, instruction,
                   editor_text, last_request, n_requests, first_count, first_nonempty,
                   notices, edits, rounds, vcs_calls>>
    /\ UNCHANGED <<resolverVars, binaryVars, diffVars, cliVars>>

\* actor.rs:208-209: choose_message takes the choices and gives the first
\* current message
FirstMessageChosen ==
    /\ apc = "first_choices"
    /\ suggestions # <<>>
    /\ \E answer \in Answers(suggestions) :
          LET chosen == choose_message(suggestions, answer)
          IN /\ chosen # None
             /\ ~ chosen.val.panicked
             /\ message' = chosen.val.text
             /\ picked' = IF Len(suggestions) = 1 THEN 0 ELSE answer.index
    /\ suggestions' = <<>>
    /\ apc' = "prompt"
    /\ UNCHANGED <<vcs_type, messages, instruction, editor_text,
                   last_request, n_requests, first_count, first_nonempty, notices,
                   edits, rounds, vcs_calls, exit_by, result>>
    /\ UNCHANGED <<resolverVars, binaryVars, diffVars, cliVars>>

\* actor.rs:210-215: the selection is cancelled, start() returns Ok(())
FirstSelectionCancelled ==
    /\ apc = "first_choices"
    /\ suggestions # <<>>
    /\ \E answer \in Answers(suggestions) : choose_message(suggestions, answer) = None
    /\ Leave("Cancelled", "Ok")
    /\ UNCHANGED <<vcs_type, messages, suggestions, message, picked, instruction,
                   editor_text, last_request, n_requests, first_count, first_nonempty,
                   notices, edits, rounds, vcs_calls>>
    /\ UNCHANGED <<resolverVars, binaryVars, diffVars, cliVars>>

\* util.rs:172: process_response panics inside choose_message
ProcessResponsePanics ==
    /\ apc \in {"first_choices", "revise_choices"}
    /\ suggestions # <<>>
    /\ \E answer \in Answers(suggestions) :
          LET chosen == choose_message(suggestions, answer)
          IN chosen # None /\ chosen.val.panicked
    /\ Leave("Panic", "panic")
    /\ UNCHANGED <<vcs_type, messages, suggestions, message, picked, instruction,
                   editor_text, last_request, n_requests, first_count, first_nonempty,
                   notices, edits, rounds, vcs_calls>>
    /\ UNCHANGED <<resolverVars, binaryVars, diffVars, cliVars>>

\* actor.rs:225: the Select prompt fails or is cancelled
PromptCancelled ==
    /\ apc = "prompt"
    /\ Leave("Cancelled", "Err")
    /\ UNCHANGED <<vcs_type, messages, suggestions, message, picked, instruction,
                   editor_text, last_request, n_requests, first_count, first_nonempty,
                   notices, edits, rounds, vcs_calls>>
    /\ UNCHANGED <<resolverVars, binaryVars, diffVars, cliVars>>

\* a mutant of TaskCommit: the break is missing
TaskCommit_without_break ==
    /\ apc = "prompt"
    /\ \E ok \in BOOLEAN :
          vcs_calls' = Append(vcs_calls, VcsCall(vcs_type, message, ok))
    /\ UNCHANGED <<vcs_type, messages, suggestions, message, picked, instruction,
                   editor_text, last_request, n_requests, first_count, first_nonempty,
                   notices, edits, rounds, exit_by, result, apc>>
    /\ UNCHANGED <<resolverVars, binaryVars, diffVars, cliVars>>

\* actor.rs:228-266: git::commit or jj::set_jj_description gets the message;
\* Ok leads to the break, Err to process::exit(1)
TaskCommit ==
    /\ apc = "prompt"
    /\ \E ok \in BOOLEAN :
          /\ vcs_calls' = Append(vcs_calls, VcsCall(vcs_type, message, ok))
          /\ Leave("Commit", IF ok THEN "Ok" ELSE "exit1")
    /\ UNCHANGED <<vcs_type, messages, suggestions, message, picked, instruction,
                   editor_text, last_request, n_requests, first_count, first_nonempty,
                   notices, edits, rounds>>
    /\ UNCHANGED <<resolverVars, binaryVars, diffVars, cliVars>>

\* a mutant of TaskEdit: "Edit it & Commit" commits the edited text at once
TaskEdit_and_commit ==
    /\ apc = "prompt"
    /\ rounds < MaxRounds
    /\ \E edited \in EditorTexts(message) :
          /\ editor_text' = edited
          /\ message' = edited
          /\ vcs_calls' = Append(vcs_calls, VcsCall(vcs_type, edited, TRUE))
    /\ edits' = edits + 1
    /\ rounds' = rounds + 1
    /\ Leave("Commit", "Ok")
    /\ UNCHANGED <<vcs_type, messages, suggestions, picked, instruction, last_request,
                   n_requests, first_count, first_nonempty, notices>>
    /\ UNCHANGED <<resolverVars, binaryVars, diffVars, cliVars>>

\* actor.rs:267-281: the editor returns a text
TaskEdit ==
    /\ apc = "prompt"
    /\ rounds < MaxRounds
    /\ \E edited \in EditorTexts(message) :
          /\ editor_text' = edited
          /\ message' = edited
    /\ edits' = edits + 1
    /\ rounds' = rounds + 1
    /\ UNCHANGED <<vcs_type, messages, suggestions, picked, instruction, last_request,
                   n_requests, first_count, first_nonempty, notices, vcs_calls,
                   exit_by, result, apc>>
    /\ UNCHANGED <<resolverVars, binaryVars, diffVars, cliVars>>

\* actor.rs:271: edit::edit(message)? fails
TaskEditFails ==
    /\ apc = "prompt"
    /\ rounds < MaxRounds
    /\ edits' = edits + 1
    /\ rounds' = rounds + 1
    /\ Leave("Error", "Err")
    /\ UNCHANGED <<vcs_type, messages, suggestions, message, picked, instruction,
                   editor_text, last_request, n_requests, first_count, first_nonempty,
                   notices, vcs_calls>>
    /\ UNCHANGED <<resolverVars, binaryVars, diffVars, cliVars>>

\* a mutant of ReviseInputCancelled: the loop goes on with the old message
ReviseInputCancelled_continues ==
    /\ apc = "prompt"
    /\ rounds < MaxRounds
    /\ messages' = Append(messages, assistant(message))
    /\ rounds' = rounds + 1
    /\ UNCHANGED <<vcs_type, suggestions, message, picked, instruction, editor_text,
                   last_request, n_requests, first_count, first_nonempty, notices,
                   edits, vcs_calls, exit_by, result, apc>>
    /\ UNCHANGED <<resolverVars, binaryVars, diffVars, cliVars>>

\* actor.rs:286-287: the assistant turn is added, the "Revise:" input is
\* cancelled
ReviseInputCancelled ==
    /\ apc = "prompt"
    /\ rounds < MaxRounds
    /\ messages' = Append(messages, assistant(message))
    /\ rounds' = rounds + 1
    /\ Leave("Cancelled", "Err")
    /\ UNCHANGED <<vcs_type, suggestions, message, picked, instruction, editor_text,
                   last_request, n_requests, first_count, first_nonempty, notices,
                   edits, vcs_calls>>
    /\ UNCHANGED <<resolverVars, binaryVars, diffVars, cliVars>>

\* actor.rs:286-293: both turns are added, self.ask().await? fails
ReviseAskFails ==
    /\ apc = "prompt"
    /\ rounds < MaxRounds
    /\ \E input \in Instructions :
          /\ instruction' = input
          /\ messages' = messages \o <<assistant(message), user(input)>>
    /\ last_request' = messages'
    /\ n_requests' = n_requests + 1
    /\ rounds' = rounds + 1
    /\ Leave("Error", "Err")
    /\ UNCHANGED <<vcs_type, suggestions, message, picked, editor_text, first_count,
                   first_nonempty, notices, edits, vcs_calls>>
    /\ UNCHANGED <<resolverVars, binaryVars, diffVars, cliVars>>

\* a mutant of ReviseAsk: the current message is not put into the transcript
ReviseAsk_without_assistant_turn ==
    /\ apc = "prompt"
    /\ rounds < MaxRounds
    /\ \E input \in Instructions :
          /\ instruction' = input
          /\ messages' = messages \o <<user(input)>>
    /\ last_request' = messages'
    /\ n_requests' = n_requests + 1
    /\ suggestions' \in SuggestionLists
    /\ rounds' = rounds + 1
    /\ apc' = "revise_choices"
    /\ UNCHANGED <<vcs_type, message, picked, editor_text, first_count, first_nonempty,
                   notices, edits, vcs_calls, exit_by, result>>
    /\ UNCHANGED <<resolverVars, binaryVars, diffVars, cliVars>>

\* a mutant of ReviseAsk: the transcript is started again with the two turns
ReviseAsk_restarts_transcript ==
    /\ apc = "prompt"
    /\ rounds < MaxRounds
    /\ \E input \in Instructions :
          /\ instruction' = input
          /\ messages' = <<assistant(message), user(input)>>
    /\ last_request' = messages'
    /\ n_requests' = n_requests + 1
    /\ suggestions' \in SuggestionLists
    /\ rounds' = rounds + 1
    /\ apc' = "revise_choices"
    /\ UNCHANGED <<vcs_type, message, picked, editor_text, first_count, first_nonempty,
                   notices, edits, vcs_calls, exit_by, result>>
    /\ UNCHANGED <<resolverVars, binaryVars, diffVars, cliVars>>

\* actor.rs:286-298: both turns are added and the completion arrives
ReviseAsk ==
    /\ apc = "prompt"
    /\ rounds < MaxRounds
    /\ \E input \in Instructions :
          /\ instruction' = input
          /\ messages' = messages \o <<assistant(message), user(input)>>
    /\ last_request' = messages'
    /\ n_requests' = n_requests + 1
    /\ suggestions' \in SuggestionLists
    /\ rounds' = rounds + 1
    /\ apc' = "revise_choices"
    /\ UNCHANGED <<vcs_type, message, picked, editor_text, first_count, first_nonempty,
                   notices, edits, vcs_calls, exit_by, result>>
    /\ UNCHANGED <<resolverVars, binaryVars, diffVars, cliVars>>

\* actor.rs:300-303: no choices, a notice is printed and the loop continues
ReviseNoSuggestions ==
    /\ apc = "revise_choices"
    /\ suggestions = <<>>
    /\ notices' = notices + 1
    /\ apc' = "prompt"
    /\ UNCHANGED <<vcs_type, messages, suggestions, message, picked, instruction,
                   editor_text, last_request, n_requests, first_count, first_nonempty,
                   edits, rounds, vcs_calls, exit_by, result>>
    /\ UNCHANGED <<resolverVars, binaryVars, diffVars, cliVars>>

\* actor.rs:305-306: choose_message takes the choices and gives the new
\* current message
ReviseMessageChosen ==
    /\ apc = "revise_choices"
    /\ suggestions # <<>>
    /\ \E answer \in Answers(suggestions) :
          LET chosen == choose_message(suggestions, answer)
          IN /\ chosen # None
             /\ ~ chosen.val.panicked
             /\ message' = chosen.val.text
             /\ picked' = IF Len(suggestions) = 1 THEN 0 ELSE answer.index
    /\ suggestions' = <<>>
    /\ apc' = "prompt"
    /\ UNCHANGED <<vcs_type, messages, instruction, editor_text,
                   last_request, n_requests, first_count, first_nonempty, notices,
                   edits, rounds, vcs_calls, exit_by, result>>
    /\ UNCHANGED <<resolverVars, binaryVars, diffVars, cliVars>>

\* actor.rs:307-312: the selection is cancelled, start() returns Ok(())
ReviseSelectionCancelled ==
    /\ apc = "revise_choices"
    /\ suggestions # <<>>
    /\ \E answer \in Answers(suggestions) : choose_message(suggestions, answer) = None
    /\ Leave("Cancelled", "Ok")
    /\ UNCHANGED <<vcs_type, messages, suggestions, message, picked, instruction,
                   editor_text, last_request, n_requests, first_count, first_nonempty,
                   notices, edits, rounds, vcs_calls>>
    /\ UNCHANGED <<resolverVars, binaryVars, diffVars, cliVars>>

\* a mutant of TaskAbort: the message is committed on the way out
TaskAbort_commits ==
    /\ apc = "prompt"
    /\ vcs_calls' = Append(vcs_calls, VcsCall(vcs_type, message, TRUE))
    /\ Leave("Abort", "Ok")
    /\ UNCHANGED <<vcs_type, messages, suggestions, message, picked, instruction,
                   editor_text, last_request, n_requests, first_count, first_nonempty,
                   notices, edits, rounds>>
    /\ UNCHANGED <<resolverVars, binaryVars, diffVars, cliVars>>

\* actor.rs:315-320: break, then Ok(()) at actor.rs:324
TaskAbort ==
    /\ apc = "prompt"
    /\ Leave("Abort", "Ok")
    /\ UNCHANGED <<vcs_type, messages, suggestions, message, picked, instruction,
                   editor_text, last_request, n_requests, first_count, first_nonempty,
                   notices, edits, rounds, vcs_calls>>
    /\ UNCHANGED <<resolverVars, binaryVars, diffVars, cliVars>>

-----------------------------------------------------------------------------
(* Options::new, cli.rs:33-219.  An argument is a sequence of pieces; a     *)
(* leading "-" is a piece of its own, so that starts_with('-') is read off  *)
(* the argument.  The arms for -n, -p, -a, --amend, -d, --debug-file and    *)
(* -r are modelled; the other arms assign fields that are not part of opts  *)
(* here: the flags among them have the shape of --amend, the options with   *)
(* a value the shape of -r.                                                 *)

ProgramName == <<"turbocommit">>
OptN == <<"-", "n">>
OptPrintOnce == <<"-", "p">>
OptAutoCommit == <<"-", "a">>
OptAmend == <<"-", "-", "amend">>
OptDebug == <<"-", "d">>
OptDebugFile == <<"-", "-", "debug-file">>
OptRevision == <<"-", "r">>

KnownOptions ==
    {OptN, OptPrintOnce, OptAutoCommit, OptAmend, OptDebug, OptDebugFile,
     OptRevision}

\* the arguments the model draws from: the options above, the path "-", two
\* words (one of them a number) and an option the parser does not know
ArgTokens ==
    KnownOptions \cup {<<"-">>, <<"log">>, <<"2">>, <<"-", "x">>}

ArgVectors ==
    {<<ProgramName>> \o rest : rest \in SeqsUpTo(ArgTokens, MaxArgs)}

Configs ==
    [default_number_of_choices : {1, 3}, disable_print_as_stream : BOOLEAN]

starts_with_dash(arg) == arg # <<>> /\ arg[1] = "-"

\* str::parse::<i32> of the arguments of the model
parse(arg) == IF arg = <<"2">> THEN Some(2) ELSE None

\* impl From<&Config> for Options
Options_from(config) ==
    [n            |-> config.default_number_of_choices,
     msg          |-> <<>>,
     print_once   |-> config.disable_print_as_stream,
     auto_commmit |-> FALSE,
     debug        |-> FALSE,
     debug_file   |-> None,
     amend        |-> FALSE,
     jj_revision  |-> None]

InitCliIdle ==
    /\ args = <<>>
    /\ conf = [default_number_of_choices |-> 1, disable_print_as_stream |-> FALSE]
    /\ arg_pos = 0
    /\ opts = Options_from(conf)
    /\ msg = <<>>
    /\ cpc = "idle"

\* the state after `let mut iter = args.skip(1)` and `let mut msg`
InitCli ==
    /\ args \in ArgVectors
    /\ conf \in Configs
    /\ arg_pos = 2
    /\ opts = Options_from(conf)
    /\ msg = <<>>
    /\ cpc = "args"

\* `while let Some(arg) = iter.next()` yields the argument `arg`
IterNext(arg) ==
    /\ cpc = "args"
    /\ arg_pos <= Len(args)
    /\ args[arg_pos] = arg

HasValue == arg_pos + 1 <= Len(args)

\* one argument consumed, or two when the arm took its value
Consumed(k) ==
    /\ arg_pos' = arg_pos + k
    /\ UNCHANGED <<args, conf, msg, cpc>>

ArgN ==
    /\ IterNext(OptN)
    /\ IF ~ HasValue
         THEN /\ Consumed(1)
              /\ UNCHANGED opts
         ELSE IF parse(args[arg_pos + 1]).some
           THEN /\ opts' = [opts EXCEPT !.n = Max(1, parse(args[arg_pos + 1]).val)]
                /\ Consumed(2)
           ELSE /\ cpc' = "exit1"
                /\ arg_pos' = arg_pos + 2
                /\ UNCHANGED <<args, conf, msg, opts>>
    /\ UNCHANGED <<resolverVars, binaryVars, diffVars, actorVars>>

ArgPrintOnce ==
    /\ IterNext(OptPrintOnce)
    /\ opts' = [opts EXCEPT !.print_once = TRUE]
    /\ Consumed(1)
    /\ UNCHANGED <<resolverVars, binaryVars, diffVars, actorVars>>

ArgAutoCommit ==
    /\ IterNext(OptAutoCommit)
    /\ opts' = [opts EXCEPT !.auto_commmit = TRUE, !.n = 1, !.print_once = TRUE]
    /\ Consumed(1)
    /\ UNCHANGED <<resolverVars, binaryVars, diffVars, actorVars>>

ArgAmend ==
    /\ IterNext(OptAmend)
    /\ opts' = [opts EXCEPT !.amend = TRUE]
    /\ Consumed(1)
    /\ UNCHANGED <<resolverVars, binaryVars, diffVars, actorVars>>

ArgDebug ==
    /\ IterNext(OptDebug)
    /\ opts' = [opts EXCEPT !.debug = TRUE, !.print_once = TRUE]
    /\ Consumed(1)
    /\ UNCHANGED <<resolverVars, binaryVars, diffVars, actorVars>>

ArgDebugFile_keeps_streaming ==
    /\ IterNext(OptDebugFile)
    /\ IF HasValue
         THEN /\ opts' = [opts EXCEPT !.debug_file = Some(args[arg_pos + 1]),
                                      !.debug = TRUE]
              /\ Consumed(2)
         ELSE /\ Consumed(1)
              /\ UNCHANGED opts
    /\ UNCHANGED <<resolverVars, binaryVars, diffVars, actorVars>>

ArgDebugFile ==
    /\ IterNext(OptDebugFile)
    /\ IF HasValue
         THEN /\ opts' = [opts EXCEPT !.debug_file = Some(args[arg_pos + 1]),
                                      !.debug = TRUE,
                                      !.print_once = TRUE]
              /\ Consumed(2)
         ELSE /\ Consumed(1)
              /\ UNCHANGED opts
    /\ UNCHANGED <<resolverVars, binaryVars, diffVars, actorVars>>

ArgRevision ==
    /\ IterNext(OptRevision)
    /\ IF HasValue
         THEN /\ opts' = [opts EXCEPT !.jj_revision = Some(args[arg_pos + 1])]
              /\ Consumed(2)
         ELSE /\ Consumed(1)
              /\ UNCHANGED opts
    /\ UNCHANGED <<resolverVars, binaryVars, diffVars, actorVars>>

\* the `_` arm, cli.rs:201-210: "Unknown option" and process::exit(1)
ArgUnknownOption ==
    /\ \E arg \in ArgTokens \ KnownOptions :
         /\ IterNext(arg)
         /\ starts_with_dash(arg)
    /\ cpc' = "exit1"
    /\ arg_pos' = arg_pos + 1
    /\ UNCHANGED <<args, conf, opts, msg>>
    /\ UNCHANGED <<resolverVars, binaryVars, diffVars, actorVars>>

\* the `_` arm, cli.rs:211-212: the argument is a word of the message
ArgMessageWord ==
    /\ \E arg \in ArgTokens \ KnownOptions :
         /\ IterNext(arg)
         /\ ~ starts_with_dash(arg)
         /\ msg' = msg \o arg \o <<" ">>
    /\ arg_pos' = arg_pos + 1
    /\ UNCHANGED <<args, conf, opts, cpc>>
    /\ UNCHANGED <<resolverVars, binaryVars, diffVars, actorVars>>

\* the iterator is exhausted: cli.rs:216-219
OptionsReturn ==
    /\ cpc = "args"
    /\ arg_pos > Len(args)
    /\ opts' = IF msg # <<>>
                 THEN [opts EXCEPT !.msg = <<"User Explanation/Instruction: '">>
                                           \o trim_matches(msg) \o <<"'">>]
                 ELSE opts
    /\ cpc' = "returned"
    /\ UNCHANGED <<args, conf, arg_pos, msg>>
    /\ UNCHANGED <<resolverVars, binaryVars, diffVars, actorVars>>

-----------------------------------------------------------------------------
(* The parts of the state a specification does not use stay as they are *)

InitBinaryIdle ==
    /\ content = <<>>
    /\ bpc = "idle"
    /\ is_binary = FALSE

InitDiffIdle ==
    /\ parent_tree = <<>>
    /\ tree = <<>>
    /\ entries = <<>>
    /\ diff_result = <<>>
    /\ emitted = <<>>
    /\ reads = <<>>
    /\ filtered = FALSE
    /\ files = {}
    /\ unreadable = {}
    /\ diff_outcome = NoDiffResult
    /\ dpc = "idle"

-----------------------------------------------------------------------------
(* Specification of the resolver *)

Init == InitResolver /\ InitBinaryIdle /\ InitDiffIdle /\ InitActorIdle
    /\ InitCliIdle

Next ==
    \/ UseWorkingCopy
    \/ ResolveFastPath
    \/ ResolveStartSearch
    \/ VisitSkip
    \/ VisitUnloadable
    \/ VisitCommit
    \/ ResolveFinish
    \/ CallerGetCommit

Spec == Init /\ [][Next]_vars


-----------------------------------------------------------------------------
(* Properties of the resolver *)

IsPrefix(p, s) == Len(p) <= Len(s) /\ SubSeq(s, 1, Len(p)) = p

\* the commits of the store that the heads reach along parent edges
RECURSIVE ReachFrom(_)
ReachFrom(S) ==
    LET more == S \cup UNION {Range(store[c].parent_ids) : c \in S \cap DOMAIN store}
    IN IF more = S THEN S ELSE ReachFrom(more)

ReachableCommits == ReachFrom(heads) \cap DOMAIN store

\* the reachable commits whose lower-cased commit-id hex or lower-cased
\* change-id display string starts with the lower-cased revision
MatchSet ==
    {c \in ReachableCommits :
        \/ IsPrefix(to_lowercase(rev), to_lowercase(hex(c)))
        \/ IsPrefix(to_lowercase(rev), to_lowercase(reverse_hex(store[c].change_id)))}

\* resolve_revision_to_commit_id has returned
Resolved == rpc \in {"get_commit", "done"} /\ rev # WorkingCopy

\* the ids of full length over the hex digits of the model
FullIds == [1..Len(CommitX) -> {16 * h + l : h, l \in {10, 11}}]

\* the revision is a well-formed hex commit id of full length
IsFullHexId(r) == \E id \in FullIds : hex(id) = to_lowercase(r)
FullIdOf(r) == CHOOSE id \in FullIds : hex(id) = to_lowercase(r)

\* C1: for a revision the fast path does not take, the resolver returns
\* commit c exactly when c is the only reachable commit whose lower-cased
\* commit-id hex or change-id display string starts with the lower-cased
\* revision; it fails with NotFound when no reachable commit matches and
\* with Ambiguous when two or more match.
C1_PrefixSearchResult ==
    (Resolved /\ ~ fast_path) =>
        /\ \A c \in Commits : (resolved = Ok(c)) <=> (MatchSet = {c})
        /\ (resolved.kind = "Ok") => resolved.id \in Commits
        /\ (MatchSet = {}) <=> (resolved = Err("NotFound"))
        /\ (Cardinality(MatchSet) >= 2) <=> (resolved = Err("Ambiguous"))

\* a unique match through an upper-case commit-id prefix of odd length
C1_Witness ==
    /\ Resolved /\ ~ fast_path
    /\ rev = <<"A", "b", "a">>
    /\ resolved = Ok(CommitY)
    /\ CommitX \in visited

\* C2: with two reachable commits whose ids share the first character and
\* differ at the second, the shared one-character prefix is Ambiguous and
\* the two-character prefix of either resolves to exactly that commit.
C2_PrefixUniqueness ==
    Resolved =>
        \A c1, c2 \in ReachableCommits :
            (c1 # c2 /\ hex(c1)[1] = hex(c2)[1] /\ hex(c1)[2] # hex(c2)[2]) =>
                /\ (rev = SubSeq(hex(c1), 1, 1)) => (resolved = Err("Ambiguous"))
                /\ (rev = SubSeq(hex(c1), 1, 2)) => (resolved = Ok(c1))

\* C3: a revision is returned without traversal if and only if it is a
\* well-formed hex commit id of full length; every other revision is
\* resolved by the search over the reachable commits.
C3_FastPathOnlyForFullId ==
    Resolved =>
        /\ fast_path <=> IsFullHexId(rev)
        /\ (~ IsFullHexId(rev)) => ReachableCommits \subseteq visited

\* C4: a full valid commit-id hex string that is not in the store is
\* resolved to that id without any traversal; the failure appears at the
\* caller's get_commit, which makes the operation return an error.
C4_FullIdNotChecked ==
    (Resolved /\ IsFullHexId(rev) /\ FullIdOf(rev) \notin DOMAIN store) =>
        /\ resolved = Ok(FullIdOf(rev))
        /\ visited = {} /\ commit_matches = <<>>
        /\ (rpc = "get_commit") => (outcome = NoResult)
        /\ (rpc = "done") => (outcome = Err("ObjectNotFound"))

C4_Witness ==
    /\ rpc = "done"
    /\ rev = <<"a", "A", "a", "a">>
    /\ resolved = Ok(<<170, 170>>)
    /\ outcome = Err("ObjectNotFound")

\* C5: a revision that is empty or has a character outside alphanumerics,
\* '-', '_', '.', ':' is rejected with an invalid-syntax error before the
\* fast path is tried and before any commit is visited.
C5_InvalidSyntaxRejectedFirst ==
    (rev # WorkingCopy /\ validate_revision_id(rev) # "Ok") =>
        /\ ~ fast_path
        /\ visited = {}
        /\ (rpc = "done") => (outcome = Err("InvalidSyntax"))

\* C6: when a commit reached by the traversal cannot be loaded, resolution
\* fails with the object-not-found error instead of skipping the commit.
C6_UnloadableCommitFails ==
    (Resolved /\ ~ fast_path /\ \E id \in visited : id \notin DOMAIN store) =>
        resolved = Err("ObjectNotFound")


-----------------------------------------------------------------------------
(* Specification of the binary-content check *)

NextBinary == CallIsBinaryContent

InitB == InitResolverIdle /\ InitBinary /\ InitDiffIdle /\ InitActorIdle
    /\ InitCliIdle

SpecBinary == InitB /\ [][NextBinary]_vars

\* the 0-based indices of the zero bytes of the buffer
ZeroIndices(bytes) == {i \in 0..(Len(bytes) - 1) : bytes[i + 1] = 0}

\* C7: is_binary_content is true exactly when a zero byte lies at an index
\* below min(length, 8000): index 7999 counts, a first zero byte at index
\* 8000 or later does not, and the empty buffer is never binary.
C7_BinaryIffEarlyZero ==
    (bpc = "returned") =>
        /\ is_binary <=> (\E z \in ZeroIndices(content) : z < 8000)
        /\ (7999 \in ZeroIndices(content)) => is_binary
        /\ (\A z \in ZeroIndices(content) : z >= 8000) => ~ is_binary
        /\ (content = <<>>) => ~ is_binary

\* a buffer of 8001 bytes whose only zero byte is the last one
C7_Witness ==
    /\ bpc = "returned"
    /\ Len(content) = 8001
    /\ ZeroIndices(content) = {8000}
    /\ ~ is_binary


-----------------------------------------------------------------------------
(* Specification of get_jj_diff *)

InitD == InitResolverIdle /\ InitBinaryIdle /\ InitDiff /\ InitActorIdle
    /\ InitCliIdle

NextDiff ==
    \/ DiffStart
    \/ DiffFileDeleted
    \/ DiffFileAdded
    \/ DiffFileModified
    \/ DiffSymlinkChanged
    \/ DiffFileTypeChanged
    \/ DiffNothing
    \/ DiffReturn

SpecDiff == InitD /\ [][NextDiff]_vars


-----------------------------------------------------------------------------
(* Specification of get_jj_diff and get_jj_diff_for_files over a store with  *)
(* unreadable objects                                                        *)

InitS == InitResolverIdle /\ InitBinaryIdle /\ InitDiffScoped /\ InitActorIdle
    /\ InitCliIdle

NextScoped ==
    \/ DiffStart
    \/ DiffFilteredOut
    \/ DiffReadFails
    \/ DiffFileDeleted
    \/ DiffFileAdded
    \/ DiffFileModified
    \/ DiffSymlinkChanged
    \/ DiffFileTypeChanged
    \/ DiffNothing
    \/ DiffReturn

SpecScoped == InitS /\ [][NextScoped]_vars


-----------------------------------------------------------------------------
(* Specification of the interactive loop of Actor::start *)

InitA == InitResolverIdle /\ InitBinaryIdle /\ InitDiffIdle /\ InitActor
    /\ InitCliIdle

NextActor ==
    \/ StartAskFails
    \/ StartAsk
    \/ StartNoSuggestions
    \/ FirstMessageChosen
    \/ FirstSelectionCancelled
    \/ ProcessResponsePanics
    \/ PromptCancelled
    \/ TaskCommit
    \/ TaskEdit
    \/ TaskEditFails
    \/ ReviseInputCancelled
    \/ ReviseAskFails
    \/ ReviseAsk
    \/ ReviseNoSuggestions
    \/ ReviseMessageChosen
    \/ ReviseSelectionCancelled
    \/ TaskAbort

SpecActor == InitA /\ [][NextActor]_vars


-----------------------------------------------------------------------------
(* Specification of Options::new *)

InitC == InitResolverIdle /\ InitBinaryIdle /\ InitDiffIdle /\ InitActorIdle
    /\ InitCli

NextCli ==
    \/ ArgN
    \/ ArgPrintOnce
    \/ ArgAutoCommit
    \/ ArgAmend
    \/ ArgDebug
    \/ ArgDebugFile
    \/ ArgRevision
    \/ ArgUnknownOption
    \/ ArgMessageWord
    \/ OptionsReturn

SpecCli == InitC /\ [][NextCli]_vars

-----------------------------------------------------------------------------
(* Properties of the diff text *)

\* the loop of get_jj_diff is past the entry of path p
Formatted(p) ==
    /\ dpc \in {"entries", "returned"}
    /\ \A i \in 1..Len(entries) : entries[i].path # p

HasZeroByte(bytes) == \E i \in 1..Len(bytes) : bytes[i] = 0

IsFile(v) == v.kind = "File"
IsTextFile(v) == v.kind = "File" /\ ~ HasZeroByte(v.id.blob)
IsBinaryFile(v) == v.kind = "File" /\ HasZeroByte(v.id.blob)

FirstTokenIn(sec, tokens) == \E i \in 1..Len(sec) : sec[i][1] \in tokens

\* C8: when a content read for a deleted, added or modified file is binary,
\* the text of that path is exactly the one line "Binary file <path>
\* deleted|added|modified", with no hunk header and no -/+ line.
C8_BinarySentinelOnly ==
    \A p \in Range(Paths) :
        Formatted(p) =>
            LET b == parent_tree[p]
                a == tree[p]
            IN /\ (IsBinaryFile(b) /\ a = Absent) =>
                      emitted[p] = << <<"Binary file ", p, " ", "deleted">> >>
               /\ (b = Absent /\ IsBinaryFile(a)) =>
                      emitted[p] = << <<"Binary file ", p, " ", "added">> >>
               /\ (IsFile(b) /\ IsFile(a) /\ b # a /\ (IsBinaryFile(b) \/ IsBinaryFile(a))) =>
                      emitted[p] = << <<"Binary file ", p, " ", "modified">> >>
               /\ ((IsBinaryFile(b) /\ a = Absent) \/ (b = Absent /\ IsBinaryFile(a))
                     \/ (IsFile(b) /\ IsFile(a) /\ b # a
                           /\ (IsBinaryFile(b) \/ IsBinaryFile(a)))) =>
                      ~ FirstTokenIn(emitted[p], {"@@ -", "@@ -1 +1 @@", "-", "+"})

\* a text file replaced by a binary one
C8_Witness ==
    /\ dpc = "returned"
    /\ parent_tree["a.txt"] = File(<<97, 10>>, FALSE)
    /\ tree["a.txt"] = File(<<97, 0>>, FALSE)
    /\ emitted["a.txt"] = << <<"Binary file ", "a.txt", " ", "modified">> >>
    /\ reads["a.txt"] = 2

\* the lines of a content, from the positions of its line feeds
LineFeeds(bytes) == {i \in 1..Len(bytes) : bytes[i] = 10}
NumLines(bytes) ==
    Cardinality(LineFeeds(bytes))
        + (IF bytes # <<>> /\ bytes[Len(bytes)] # 10 THEN 1 ELSE 0)
KthLineFeed(bytes, k) ==
    CHOOSE i \in LineFeeds(bytes) : Cardinality({j \in LineFeeds(bytes) : j <= i}) = k
LineText(bytes, k) ==
    LET first == IF k = 1 THEN 1 ELSE KthLineFeed(bytes, k - 1) + 1
        last == IF k <= Cardinality(LineFeeds(bytes))
                THEN KthLineFeed(bytes, k) - 1 ELSE Len(bytes)
    IN [i \in 1..(last - first + 1) |-> utf8_char(bytes[first + i - 1])]

\* the lines of a section after its four header lines
AfterHeader(sec) == SubSeq(sec, 5, Len(sec))

\* C9: the body of a deleted text file of n lines is "@@ -1,<n> +0,0 @@" and
\* then exactly n lines, "-" plus each line in order; the body of an added
\* text file is "@@ -0,0 +1,<n> @@" and then exactly n "+" lines; n is the
\* number of lines of the content (a final line feed ends the last line).
C9_WholeFileHunk ==
    \A p \in Range(Paths) :
        Formatted(p) =>
            LET b == parent_tree[p]
                a == tree[p]
            IN /\ (IsTextFile(b) /\ a = Absent) =>
                    LET n == NumLines(b.id.blob)
                    IN /\ Len(emitted[p]) = 5 + n
                       /\ AfterHeader(emitted[p]) =
                            << <<"@@ -", "1", ",", ToString(n), " +", "0", ",", "0", " @@">> >>
                              \o [k \in 1..n |-> <<"-">> \o LineText(b.id.blob, k)]
               /\ (b = Absent /\ IsTextFile(a)) =>
                    LET n == NumLines(a.id.blob)
                    IN /\ Len(emitted[p]) = 5 + n
                       /\ AfterHeader(emitted[p]) =
                            << <<"@@ -", "0", ",", "0", " +", "1", ",", ToString(n), " @@">> >>
                              \o [k \in 1..n |-> <<"+">> \o LineText(a.id.blob, k)]

\* a deleted file of three bytes and two lines
C9_Witness ==
    /\ dpc = "returned"
    /\ parent_tree["a.txt"] = File(<<97, 10, 97>>, FALSE)
    /\ tree["a.txt"] = Absent
    /\ emitted["a.txt"] =
          << <<"diff --git ", "a/", "a.txt", " ", "b/", "a.txt">>,
             <<"deleted file mode 100644">>,
             <<"--- ", "a/", "a.txt">>,
             <<"+++ ", "/dev/null">>,
             <<"@@ -", "1", ",", "2", " +", "0", ",", "0", " @@">>,
             <<"-", "a">>,
             <<"-", "a">> >>

\* the same line of the diff in the other direction
MirrorLine(l) ==
    CASE l[1] = "-" -> <<"+">> \o Tail(l)
      [] l[1] = "+" -> <<"-">> \o Tail(l)
      [] l[1] = "@@ -" -> <<"@@ -", l[6], ",", l[8], " +", l[2], ",", l[4], " @@">>
      [] l[1] = "--- " -> IF l[2] = "/dev/null" THEN <<"+++ ", "/dev/null">>
                          ELSE <<"+++ ", "b/", l[3]>>
      [] l[1] = "+++ " -> IF l[2] = "/dev/null" THEN <<"--- ", "/dev/null">>
                          ELSE <<"--- ", "a/", l[3]>>
      [] l[1] = "old mode " -> <<"new mode ", l[2]>>
      [] l[1] = "new mode " -> <<"old mode ", l[2]>>
      [] l[1] = "deleted file mode 100644" -> <<"new file mode 100644">>
      [] l[1] = "new file mode 100644" -> <<"deleted file mode 100644">>
      [] OTHER -> l

MirrorLines(sec) == [i \in 1..Len(sec) |-> MirrorLine(sec[i])]

IsHeaderLine(l) ==
    l[1] \in {"diff --git ", "deleted file mode 100644", "new file mode 100644",
              "old mode ", "new mode ", "--- ", "+++ "}
IsBodyLine(l) == ~ IsHeaderLine(l)
IsMinusLine(l) == l[1] = "-"
IsPlusLine(l) == l[1] = "+"
IsOtherBodyLine(l) == IsBodyLine(l) /\ ~ IsMinusLine(l) /\ ~ IsPlusLine(l)

\* the text of the path when the two trees change places
ReverseSection(p) ==
    section_of([path |-> p, before |-> tree[p], after |-> parent_tree[p]])

\* the header lines of the two directions have their sides swapped
HeadersMirrored(fwd, back) ==
    /\ Len(SelectSeq(fwd, IsHeaderLine)) = Len(SelectSeq(back, IsHeaderLine))
    /\ Range(MirrorLines(SelectSeq(fwd, IsHeaderLine))) = Range(SelectSeq(back, IsHeaderLine))

NoBinaryContent(p) == ~ IsBinaryFile(parent_tree[p]) /\ ~ IsBinaryFile(tree[p])

\* C10 as stated: for a path without binary content the diffs A->B and B->A
\* are mirror images: header sides swapped, and the sequence of body lines of
\* one is that of the other with every + and - exchanged.
C10_MirrorImageExact ==
    \A p \in Range(Paths) :
        (Formatted(p) /\ NoBinaryContent(p)) =>
            /\ HeadersMirrored(emitted[p], ReverseSection(p))
            /\ SelectSeq(emitted[p], IsBodyLine)
                  = MirrorLines(SelectSeq(ReverseSection(p), IsBodyLine))

\* C10 amended: the headers and the hunk headers are mirrored, and the "-"
\* lines of one direction are, in order, the "+" lines of the other (and the
\* other way round); the body sequences are exact sign-swapped images for an
\* added/deleted file, but not for a modified file or a retargeted symlink,
\* where both directions put the "-" line of an index before its "+" line.
C10_MirrorUpToInterleaving ==
    \A p \in Range(Paths) :
        (Formatted(p) /\ NoBinaryContent(p)) =>
            LET fwd == emitted[p]
                back == ReverseSection(p)
            IN /\ HeadersMirrored(fwd, back)
               /\ SelectSeq(fwd, IsOtherBodyLine)
                     = MirrorLines(SelectSeq(back, IsOtherBodyLine))
               /\ SelectSeq(fwd, IsMinusLine) = MirrorLines(SelectSeq(back, IsPlusLine))
               /\ SelectSeq(fwd, IsPlusLine) = MirrorLines(SelectSeq(back, IsMinusLine))
               /\ (parent_tree[p] = Absent \/ tree[p] = Absent) =>
                     SelectSeq(fwd, IsBodyLine) = MirrorLines(SelectSeq(back, IsBodyLine))

\* a modified text file whose mode changes too
C10_Witness ==
    /\ dpc = "returned"
    /\ parent_tree["a.txt"] = File(<<97>>, FALSE)
    /\ tree["a.txt"] = File(<<97, 97>>, TRUE)
    /\ emitted["a.txt"] =
          << <<"diff --git ", "a/", "a.txt", " ", "b/", "a.txt">>,
             <<"old mode ", "100644">>,
             <<"new mode ", "100755">>,
             <<"--- ", "a/", "a.txt">>,
             <<"+++ ", "b/", "a.txt">>,
             <<"@@ -", "1", ",", "1", " +", "1", ",", "1", " @@">>,
             <<"-", "a">>,
             <<"+", "a", "a">> >>
    /\ ReverseSection("a.txt")[7] = <<"-", "a", "a">>

\* the mode lines of a section
IsModeLine(l) == l[1] \in {"old mode ", "new mode "}
IsHunkOrSignedLine(l) == l[1] \in {"@@ -", "@@ -1 +1 @@", "-", "+"}

\* what C11 says of the text of a File -> File entry of path p
ModeLinesAsClaimed(p) ==
    LET b == parent_tree[p]
        a == tree[p]
        sec == emitted[p]
    IN /\ (b.executable # a.executable) =>
            /\ Len(sec) >= 5
            /\ sec[1] = <<"diff --git ", "a/", p, " ", "b/", p>>
            /\ sec[2] = (IF a.executable THEN <<"old mode ", "100644">>
                                         ELSE <<"old mode ", "100755">>)
            /\ sec[3] = (IF a.executable THEN <<"new mode ", "100755">>
                                         ELSE <<"new mode ", "100644">>)
            /\ sec[4] = <<"--- ", "a/", p>>
            /\ sec[5] = <<"+++ ", "b/", p>>
            /\ Len(SelectSeq(sec, IsModeLine)) = 2
            /\ (b.id = a.id) =>
                  /\ Len(sec) = 5
                  /\ SelectSeq(sec, IsHunkOrSignedLine) = <<>>
       /\ (b.executable = a.executable) => SelectSeq(sec, IsModeLine) = <<>>

\* C11 as stated: every File -> File entry whose executable bit differs has
\* the old mode/new mode pair between the diff --git line and the ---/+++
\* lines, no hunk when the content is the same, and no mode line when the bit
\* is unchanged.
C11_ModePairAlways ==
    \A p \in Range(Paths) :
        (Formatted(p) /\ IsFile(parent_tree[p]) /\ IsFile(tree[p])
           /\ parent_tree[p] # tree[p])
            => ModeLinesAsClaimed(p)

\* C11 amended: the same, for entries whose two contents are not binary; an
\* entry with a binary side has the Binary file line alone, whatever happens
\* to the executable bit.
C11_ModePairUnlessBinary ==
    \A p \in Range(Paths) :
        (Formatted(p) /\ IsFile(parent_tree[p]) /\ IsFile(tree[p])
           /\ parent_tree[p] # tree[p])
            => IF NoBinaryContent(p)
               THEN ModeLinesAsClaimed(p)
               ELSE emitted[p] = << <<"Binary file ", p, " ", "modified">> >>

\* the executable bit is turned off and the content stays the same
C11_Witness ==
    /\ dpc = "returned"
    /\ parent_tree["a.txt"] = File(<<97, 10>>, TRUE)
    /\ tree["a.txt"] = File(<<97, 10>>, FALSE)
    /\ emitted["a.txt"] =
          << <<"diff --git ", "a/", "a.txt", " ", "b/", "a.txt">>,
             <<"old mode ", "100755">>,
             <<"new mode ", "100644">>,
             <<"--- ", "a/", "a.txt">>,
             <<"+++ ", "b/", "a.txt">> >>

\* C12: no text is emitted and nothing is read for a path whose value is the
\* same in both trees, no entry has equal before and after values, and the
\* diff of a tree against itself is returned as Ok with an empty text.
C12_SelfDiffEmpty ==
    /\ \A p \in Range(Paths) :
          (Formatted(p) /\ parent_tree[p] = tree[p]) =>
              emitted[p] = <<>> /\ reads[p] = 0
    /\ \A i \in 1..Len(entries) : entries[i].before # entries[i].after
    /\ (dpc = "returned" /\ parent_tree = tree) => diff_outcome = DiffOk(<<>>)

\* a tree with an executable file diffed against itself
C12_Witness ==
    /\ dpc = "returned"
    /\ parent_tree = tree
    /\ tree["a.txt"] = File(<<97, 10>>, TRUE)
    /\ diff_result = <<>>
    /\ diff_outcome = [kind |-> "Ok", text |-> <<>>]

\* the section get_jj_diff formats for path p of the two trees
FullSection(p) ==
    IF parent_tree[p] = tree[p] THEN <<>>
    ELSE section_of([path |-> p, before |-> parent_tree[p], after |-> tree[p]])

\* the sections of the paths of S, in path order
RECURSIVE SectionsOf(_, _)
SectionsOf(S, i) ==
    IF i > Len(Paths) THEN <<>>
    ELSE (IF Paths[i] \in S THEN FullSection(Paths[i]) ELSE <<>>) \o SectionsOf(S, i + 1)

\* C13: get_jj_diff returns the sections of all changed paths in path order;
\* get_jj_diff_for_files returns that text with the sections of the paths
\* outside `files` removed and the others unchanged and in the same order;
\* it never emits text for a path outside `files` and never reads its content.
C13_ScopedDiffIsRestriction ==
    /\ (dpc = "returned" /\ ~ filtered) =>
          diff_outcome = DiffOk(SectionsOf(Range(Paths), 1))
    /\ (dpc = "returned" /\ filtered) =>
          diff_outcome = DiffOk(SectionsOf(files, 1))
    /\ filtered =>
          \A p \in Range(Paths) \ files :
              emitted[p] = <<>> /\ reads[p] = 0

\* two deleted files, the first outside the file list and unreadable
C13_Witness ==
    /\ dpc = "returned"
    /\ filtered
    /\ files = {"b.txt"}
    /\ parent_tree["a.txt"] = File(<<0>>, FALSE) /\ tree["a.txt"] = Absent
    /\ parent_tree["b.txt"] = File(<<97>>, FALSE) /\ tree["b.txt"] = Absent
    /\ unreadable = {FileId(<<0>>)}
    /\ reads["a.txt"] = 0
    /\ diff_outcome =
          [kind |-> "Ok",
           text |-> << <<"diff --git ", "a/", "b.txt", " ", "b/", "b.txt">>,
                       <<"deleted file mode 100644">>,
                       <<"--- ", "a/", "b.txt">>,
                       <<"+++ ", "/dev/null">>,
                       <<"@@ -", "1", ",", "1", " +", "0", ",", "0", " @@">>,
                       <<"-", "a">> >>]

\* an entry the loop goes on with has a read that fails
SomeReadFails ==
    \E p \in Range(Paths) :
        LET entry == [path |-> p, before |-> parent_tree[p], after |-> tree[p]]
        IN parent_tree[p] # tree[p] /\ selected(entry) /\ ~ reads_ok(entry)

\* C14: when a read fails while the diff is formatted the operation ends with
\* an error that carries no text, whatever had been pushed onto diff_result;
\* the operation returns Ok exactly when no read of a formatted entry fails.
C14_ReadFailureFailsWholeDiff ==
    /\ dpc = "failed" => (diff_outcome.kind = "Err" /\ diff_outcome.text = <<>>)
    /\ dpc \in {"returned", "failed"} =>
          (diff_outcome.kind = "Err" <=> SomeReadFails)
    /\ dpc \in {"start", "entries"} => diff_outcome.kind = "none"

\* the first file is formatted, the read of the second fails
C14_Witness ==
    /\ dpc = "failed"
    /\ parent_tree["a.txt"] = File(<<>>, FALSE) /\ tree["a.txt"] = Absent
    /\ parent_tree["b.txt"] = File(<<97>>, FALSE) /\ tree["b.txt"] = Absent
    /\ unreadable = {FileId(<<97>>)}
    /\ Len(diff_result) = 5
    /\ reads["b.txt"] = 1
    /\ diff_outcome = [kind |-> "Err", text |-> <<>>]

\* the header of a symlink entry is pushed, then the read of its target fails
C14_SymlinkHeaderDropped ==
    /\ dpc = "failed"
    /\ parent_tree["a.txt"] = Symlink(<<120>>) /\ tree["a.txt"] = Symlink(<<121>>)
    /\ unreadable = {SymlinkId(<<121>>)}
    /\ Len(emitted["a.txt"]) = 4
    /\ reads["a.txt"] = 2
    /\ diff_outcome = [kind |-> "Err", text |-> <<>>]


-----------------------------------------------------------------------------
(* Properties of the interactive loop *)

\* the step is a call of the VCS-write collaborator
VcsWritten == vcs_calls' # vcs_calls

\* the turns of a transcript before its last two
Last2(t) == SubSeq(t, Len(t) - 1, Len(t))

\* C15: the VCS-write collaborator is called at most once in a run, only by
\* a Commit chosen at the prompt, with exactly the current message, and that
\* step ends the loop; after the end nothing is requested or written.  The
\* current message changes only by the first selection, by an Edit or by the
\* selection of a Revise.
C15_CommitWritesCurrentOnce ==
    /\ [](Len(vcs_calls) <= 1)
    /\ [][/\ VcsWritten =>
              /\ apc = "prompt"
              /\ vcs_calls' = Append(vcs_calls, vcs_calls'[Len(vcs_calls')])
              /\ vcs_calls'[Len(vcs_calls')].message = message
              /\ vcs_calls'[Len(vcs_calls')].vcs = vcs_type
              /\ message' = message
              /\ apc' = "done"
              /\ exit_by' = "Commit"
          /\ apc = "done" => UNCHANGED <<apc, n_requests, vcs_calls, message>>
          /\ message' # message =>
              \/ apc = "first_choices" /\ n_requests = 1
              \/ apc = "prompt" /\ edits' = edits + 1 /\ message' = editor_text'
              \/ apc = "revise_choices" /\ n_requests > 1
          ]_vars

\* a Revise, then an Edit, then the Commit of the edited text
C15_Witness ==
    /\ apc = "done"
    /\ exit_by = "Commit"
    /\ result = "Ok"
    /\ n_requests = 2
    /\ edits = 1
    /\ editor_text = <<"e">>
    /\ vcs_calls = <<[vcs |-> "Jujutsu", message |-> <<"e">>, ok |-> TRUE]>>

\* what C16 says of the request of a Revise step
ReviseRequestAsClaimed ==
    (apc = "prompt" /\ n_requests' = n_requests + 1) =>
        /\ last_request' = messages'
        /\ Len(last_request') = Len(messages) + 2
        /\ Last2(last_request') = <<[role |-> "assistant", content |-> message],
                                   [role |-> "user", content |-> instruction']>>
        /\ SubSeq(last_request', 1, Len(messages)) = messages
        /\ apc' = "revise_choices" => message' = message

\* C16 as stated: the request of a Revise step ends with the assistant turn of
\* the current message and the user turn of the instruction, and the new
\* current message is the first suggestion of its completion (as
\* process_response hands it on), with which the loop is back at the prompt.
C16_ReviseTakesFirstSuggestion ==
    [][/\ ReviseRequestAsClaimed
       /\ (apc = "revise_choices" /\ apc' = "prompt" /\ suggestions # <<>>) =>
              message' = process_response(suggestions[1]).text
      ]_vars

\* C16 amended: the new current message is the suggestion the user selects
\* among those of the completion, which is the first one when only one came
\* back; no prompt asks for a selection then.
C16_ReviseTakesSelectedSuggestion ==
    [][/\ ReviseRequestAsClaimed
       /\ (apc = "revise_choices" /\ apc' = "prompt" /\ suggestions # <<>>) =>
              /\ picked' \in 0..(Len(suggestions) - 1)
              /\ Len(suggestions) = 1 => picked' = 0
              /\ message' = process_response(suggestions[picked' + 1]).text
              /\ UNCHANGED <<vcs_calls, n_requests, messages>>
       /\ (apc = "revise_choices" /\ suggestions # <<>>) => apc' \in {"prompt", "done"}
      ]_vars

\* the second of two suggestions of a revision is selected
C16_Witness ==
    /\ apc = "prompt"
    /\ n_requests = 2
    /\ edits = 0
    /\ picked = 1
    /\ message = <<"c">>
    /\ Len(last_request) >= 2
    /\ Last2(last_request) = <<[role |-> "assistant", content |-> <<"b">>],
                               [role |-> "user", content |-> <<"i">>]>>

\* the "Revise:" input is cancelled in this step
ReviseInputIsCancelled ==
    /\ apc = "prompt"
    /\ rounds' = rounds + 1
    /\ messages' = Append(messages, [role |-> "assistant", content |-> message])

\* the completion of a Revise step holds no suggestion
RevisionIsEmpty == apc = "revise_choices" /\ suggestions = <<>>

\* C17 as stated: when the "Revise:" input is cancelled or the completion of
\* a Revise step holds no suggestion, the loop is left and nothing is written
\* to the VCS then or later.
C17_ReviseFailureExits ==
    [][/\ ReviseInputIsCancelled => (apc' = "done" /\ ~ VcsWritten)
       /\ RevisionIsEmpty => (apc' = "done" /\ ~ VcsWritten)
       /\ apc = "done" => ~ VcsWritten
      ]_vars

\* C17 amended: a cancelled "Revise:" input ends start() with the error of
\* the prompt and nothing is written then or later; a completion without
\* suggestions prints a notice and the loop is back at the prompt with the old
\* message, which a later Commit can write.
C17_CancelExitsEmptyContinues ==
    [][/\ ReviseInputIsCancelled =>
              (apc' = "done" /\ result' = "Err" /\ exit_by' = "Cancelled" /\ ~ VcsWritten)
       /\ RevisionIsEmpty =>
              /\ apc' = "prompt"
              /\ message' = message
              /\ notices' = notices + 1
              /\ ~ VcsWritten
       /\ apc = "done" => ~ VcsWritten
      ]_vars

\* a revision without suggestions, then the Commit of the old message
C17_Witness ==
    /\ apc = "done"
    /\ notices = 1
    /\ n_requests = 2
    /\ edits = 0
    /\ exit_by = "Commit"
    /\ vcs_calls = <<[vcs |-> "Git", message |-> <<"b">>, ok |-> TRUE]>>

Written == SelectSeq(vcs_calls, LAMBDA c : c.ok)

\* C19: Abort ends start() with Ok and without a VCS write; the VCS-write
\* collaborator is called only in a run that ends by Commit, so a run that
\* ends by Abort, by a cancellation, by an error or by a panic has called it
\* never, and a run that ends with an error has written nothing.
C19_WriteOnlyByCommit ==
    /\ exit_by = "Abort" => (result = "Ok" /\ vcs_calls = <<>>)
    /\ vcs_calls # <<>> => (apc = "done" /\ exit_by = "Commit")
    /\ exit_by \in {"Cancelled", "Error", "NoSuggestions", "Panic"} => vcs_calls = <<>>
    /\ result \in {"Err", "exit1", "panic"} => Written = <<>>
    /\ apc # "done" => (exit_by = "none" /\ result = "none")

\* Abort after a Revise and an Edit
C19_Witness ==
    /\ apc = "done"
    /\ exit_by = "Abort"
    /\ result = "Ok"
    /\ n_requests = 2
    /\ edits = 1
    /\ vcs_calls = <<>>

\* what C20 says of a first completion without suggestions
NoSuggestionsFailsAtOnce ==
    [][(apc = "first_choices" /\ suggestions = <<>>) =>
          /\ apc' = "done"
          /\ result' = "Err"
          /\ exit_by' = "NoSuggestions"
          /\ ~ VcsWritten
      ]_vars

\* the prompt is reached from the selections and from itself only
PromptEntries ==
    [][(apc' = "prompt" /\ apc # "prompt") =>
          /\ apc \in {"first_choices", "revise_choices"}
          /\ apc = "first_choices" => (suggestions # <<>> /\ n_requests = 1)
      ]_vars

\* C20 as stated: the prompt is reached only after the first completion came
\* back with at least one suggestion that is a non-empty text; a first
\* completion without suggestions makes start() fail before any prompt and
\* without a VCS write.
C20_PromptAfterNonEmptyText ==
    /\ [](apc = "prompt" => (first_count >= 1 /\ first_nonempty))
    /\ [](exit_by = "NoSuggestions" => (first_count = 0 /\ rounds = 0 /\ vcs_calls = <<>>))
    /\ NoSuggestionsFailsAtOnce
    /\ PromptEntries

\* C20 amended: the prompt is reached only after the first completion came
\* back with at least one suggestion; the text of the suggestions is not
\* tested and the current message can be empty.  A first completion without
\* suggestions makes start() fail before any prompt and without a VCS write.
C20_PromptAfterSomeSuggestion ==
    /\ [](apc = "prompt" => (first_count >= 1 /\ n_requests >= 1))
    /\ [](first_count = 0 => (apc # "prompt" /\ rounds = 0 /\ vcs_calls = <<>>))
    /\ [](exit_by = "NoSuggestions" => (first_count = 0 /\ result = "Err"))
    /\ NoSuggestionsFailsAtOnce
    /\ PromptEntries

\* the prompt is shown for the only suggestion of the first completion, an
\* empty text
C20_Witness ==
    /\ apc = "prompt"
    /\ n_requests = 1
    /\ rounds = 0
    /\ first_count = 1
    /\ ~ first_nonempty
    /\ message = <<>>

-----------------------------------------------------------------------------
(* Properties of Options::new *)

\* The indices of `argv` that the loop reads as an option or a word, from
\* index p on: an option with a value takes the argument after it.
ValueOptions == {OptN, OptDebugFile, OptRevision}

RECURSIVE ReadAsArgument(_, _)
ReadAsArgument(argv, p) ==
    IF p > Len(argv)
      THEN {}
      ELSE {p} \cup ReadAsArgument(argv,
                       IF argv[p] \in ValueOptions /\ p + 1 <= Len(argv)
                         THEN p + 2 ELSE p + 1)

\* the `--debug-file <path>` arguments of `argv`
DebugFileArguments(argv) ==
    {p \in ReadAsArgument(argv, 2) : argv[p] = OptDebugFile /\ p + 1 <= Len(argv)}

\* C21: while Options::new runs and when it has returned, debug implies
\* print_once; and when it has returned for an argument vector that holds a
\* `--debug-file <path>` argument, debug and print_once are true and
\* debug_file is the path of the last such argument ("-" included), whatever
\* the configuration and the other arguments are.
C21_DebugForcesPrintOnce ==
    /\ cpc \in {"args", "returned"} => (opts.debug => opts.print_once)
    /\ cpc = "returned" =>
         LET given == DebugFileArguments(args)
         IN  IF given = {}
               THEN opts.debug_file = None
               ELSE /\ opts.debug_file =
                         Some(args[(CHOOSE p \in given : \A q \in given : q <= p) + 1])
                    /\ opts.debug
                    /\ opts.print_once

\* `--debug-file - -a` with streaming configured: the path is "-", and debug
\* and print_once are on
C21_Witness ==
    /\ cpc = "returned"
    /\ ~ conf.disable_print_as_stream
    /\ args = <<ProgramName, OptDebugFile, <<"-">>, OptAutoCommit>>
    /\ opts.debug_file = Some(<<"-">>)
    /\ opts.debug
    /\ opts.print_once

-----------------------------------------------------------------------------
(* Properties of the resolver's traversal *)

NoDuplicates(s) == \A i, j \in 1..Len(s) : s[i] = s[j] => i = j

\* every id the traversal can meet: the heads and the parents of the commits
\* of the store
KnownIds ==
    heads \cup UNION {Range(store[c].parent_ids) : c \in DOMAIN store}

Unvisited == Cardinality(KnownIds \ visited)

\* C22: the traversal terminates and loads each commit at most once.  Every
\* iteration of the loop either marks an id of the graph that was not marked
\* before, or leaves the marks alone and shortens the stack, so the pair
\* (unmarked ids, stack length) falls in the lexicographic order and the loop
\* ends on any finite graph, cyclic or not; no id is handed to get_commit
\* twice, and the match list holds loaded ids only and none of them twice.
C22_TraversalTerminatesLoadsOnce ==
    /\ [](/\ NoDuplicates(loaded)
          /\ NoDuplicates(commit_matches)
          /\ Range(commit_matches) \subseteq Range(loaded)
          /\ visited \subseteq KnownIds)
    /\ [][rpc = "search" /\ rpc' = "search" =>
            \/ Unvisited' < Unvisited
            \/ Unvisited' = Unvisited /\ Len(to_visit') < Len(to_visit)]_vars

\* the traversal has ended on the graph X -> (Y, Z), Y -> Z: the merge commit
\* X, and Z reachable along two paths, loaded and matched once
C22_Witness ==
    /\ rpc = "done"
    /\ CommitX \in DOMAIN store /\ store[CommitX].parent_ids = <<CommitY, CommitZ>>
    /\ CommitY \in DOMAIN store /\ store[CommitY].parent_ids = <<CommitZ>>
    /\ Len(loaded) = 3
    /\ commit_matches = <<CommitZ>>

\* the traversal has ended on the cycle X -> Y -> X
C22_CycleEnds ==
    /\ rpc = "done"
    /\ CommitX \in DOMAIN store /\ store[CommitX].parent_ids = <<CommitY>>
    /\ CommitY \in DOMAIN store /\ store[CommitY].parent_ids = <<CommitX>>
    /\ Len(loaded) = 2

-----------------------------------------------------------------------------
(* Properties of the line diff of a modified text file *)

\* the path p has been formatted and both its values are text files
ModifiedText(p) ==
    /\ Formatted(p)
    /\ IsTextFile(parent_tree[p])
    /\ IsTextFile(tree[p])
    /\ parent_tree[p] # tree[p]

Before(p) == parent_tree[p].id.blob
After(p) == tree[p].id.blob

\* the line of 0-based index i, the empty string when there is none
TextLine(bytes, i) == IF i < NumLines(bytes) THEN LineText(bytes, i + 1) ELSE <<>>

ScanLen(p) == Max(NumLines(Before(p)), NumLines(After(p)))
Differs(p, i) == TextLine(Before(p), i) # TextLine(After(p), i)

\* the first indices and the lengths of the maximal runs of differing indices
RunStarts(p) ==
    {s \in 0..(ScanLen(p) - 1) : Differs(p, s) /\ (s = 0 \/ ~ Differs(p, s - 1))}
RunLen(p, s) ==
    Cardinality({k \in s..(ScanLen(p) - 1) : \A j \in s..k : Differs(p, j)})
KthRunStart(p, k) ==
    CHOOSE s \in RunStarts(p) : Cardinality({r \in RunStarts(p) : r <= s}) = k

\* what follows the "+++ b/<path>" line of the section of p
UnifiedPart(p) ==
    LET sec == emitted[p]
        k == CHOOSE i \in 1..Len(sec) : sec[i][1] = "+++ "
    IN SubSeq(sec, k + 1, Len(sec))

IsHunkHeader(l) == l[1] = "@@ -"
IsSignedLine(l) == l[1] \in {"-", "+"}

HunkHeaderOf(s, len) ==
    <<"@@ -", ToString(s + 1), ",", ToString(len),
      " +", ToString(s + 1), ",", ToString(len), " @@">>

\* C23: the hunk headers of a modified text file are, in ascending order,
\* one header "@@ -<s+1>,<len> +<s+1>,<len> @@" for every maximal run of
\* differing indices, s its first index and len its length; between two
\* hunks lies at least one index whose lines are equal.
C23_OneHunkPerMaximalRun ==
    \A p \in Range(Paths) :
        ModifiedText(p) =>
            LET headers == SelectSeq(UnifiedPart(p), IsHunkHeader)
            IN /\ Len(headers) = Cardinality(RunStarts(p))
               /\ \A k \in 1..Len(headers) :
                     LET s == KthRunStart(p, k)
                     IN /\ headers[k] = HunkHeaderOf(s, RunLen(p, s))
                        /\ k < Len(headers) =>
                              s + RunLen(p, s) < KthRunStart(p, k + 1)

\* lines "", "", "a" against "a", "": the indices 0 and 2 differ, index 1 does
\* not, and there are two hunks of one line
C23_Witness ==
    /\ dpc = "returned"
    /\ parent_tree["a.txt"] = File(<<10, 10, 97>>, FALSE)
    /\ tree["a.txt"] = File(<<97, 10, 10>>, FALSE)
    /\ SelectSeq(emitted["a.txt"], IsHunkHeader) =
          <<HunkHeaderOf(0, 1), HunkHeaderOf(2, 1)>>

\* what C24 says is written for the index i
LinesOfIndex(p, i) ==
    (IF i \in RunStarts(p) THEN <<HunkHeaderOf(i, RunLen(p, i))>> ELSE <<>>)
    \o (IF Differs(p, i) /\ TextLine(Before(p), i) # <<>>
          THEN << <<"-">> \o TextLine(Before(p), i) >> ELSE <<>>)
    \o (IF Differs(p, i) /\ TextLine(After(p), i) # <<>>
          THEN << <<"+">> \o TextLine(After(p), i) >> ELSE <<>>)

RECURSIVE LinesFromIndex(_, _)
LinesFromIndex(p, i) ==
    IF i >= ScanLen(p) THEN <<>> ELSE LinesOfIndex(p, i) \o LinesFromIndex(p, i + 1)

\* C24: after the header of its hunk every differing index gives, in order,
\* "-<before line>" when the before line is not empty and then
\* "+<after line>" when the after line is not empty; an index whose lines are
\* equal gives no line, so equal line sequences give no output at all.
C24_HunkBodyPerIndex ==
    \A p \in Range(Paths) :
        ModifiedText(p) =>
            /\ UnifiedPart(p) = LinesFromIndex(p, 0)
            /\ (\A i \in 0..(ScanLen(p) - 1) : ~ Differs(p, i)) => UnifiedPart(p) = <<>>
            /\ \A i \in 1..Len(UnifiedPart(p)) :
                  IsHunkHeader(UnifiedPart(p)[i]) \/ IsSignedLine(UnifiedPart(p)[i])

\* the line "a" replaced by the line "aa": both lines of index 0 are written,
\* the "-" line first
C24_Witness ==
    /\ dpc = "returned"
    /\ parent_tree["a.txt"] = File(<<97>>, FALSE)
    /\ tree["a.txt"] = File(<<97, 97>>, FALSE)
    /\ UnifiedPart("a.txt") =
          <<HunkHeaderOf(0, 1), <<"-", "a">>, <<"+", "a", "a">> >>

\* the two line sequences of p are the same sequence
SameLineSequences(p) ==
    /\ NumLines(Before(p)) = NumLines(After(p))
    /\ \A k \in 1..NumLines(Before(p)) : LineText(Before(p), k) = LineText(After(p), k)

\* the two line sequences of p agree on the lines both have, and the lines
\* the longer one has beyond the end of the shorter one are all empty
SameUpToTrailingEmptyLines(p) ==
    LET nb == NumLines(Before(p))
        na == NumLines(After(p))
    IN /\ \A k \in 1..Min(nb, na) : LineText(Before(p), k) = LineText(After(p), k)
       /\ \A k \in (na + 1)..nb : LineText(Before(p), k) = <<>>
       /\ \A k \in (nb + 1)..na : LineText(After(p), k) = <<>>

NoHunk(p) == SelectSeq(emitted[p], IsHunkHeader) = <<>>

\* C28 as stated: a modified text file whose line sequences differ, in length
\* or in some line, has at least one hunk.
C28_HunkWheneverLinesDiffer ==
    \A p \in Range(Paths) :
        ModifiedText(p) => (~ SameLineSequences(p) => ~ NoHunk(p))

\* C28, amended: a modified text file has no hunk exactly when its line
\* sequences are the same up to empty lines at the end of the longer one;
\* then nothing at all follows the "+++" line.
C28_HunkUnlessOnlyTrailingEmptyLines ==
    \A p \in Range(Paths) :
        ModifiedText(p) =>
            /\ NoHunk(p) <=> SameUpToTrailingEmptyLines(p)
            /\ NoHunk(p) => UnifiedPart(p) = <<>>

\* "a\n" against "a\n\n": an empty line was added at the end and the diff of
\* the file is its three header lines
C28_Witness ==
    /\ dpc = "returned"
    /\ parent_tree["a.txt"] = File(<<97, 10>>, FALSE)
    /\ tree["a.txt"] = File(<<97, 10, 10>>, FALSE)
    /\ emitted["a.txt"] =
          << <<"diff --git ", "a/", "a.txt", " ", "b/", "a.txt">>,
             <<"--- ", "a/", "a.txt">>, <<"+++ ", "b/", "a.txt">> >>

\* the hunks of a unified part: for the header at position h, the number of
\* body lines between it and the next header
HeaderPositions(part) == {h \in 1..Len(part) : IsHunkHeader(part[h])}
BodyLinesAfter(part, h) ==
    Cardinality({i \in (h + 1)..Len(part) :
                    /\ IsSignedLine(part[i])
                    /\ \A j \in (h + 1)..i : ~ IsHunkHeader(part[j])})

\* C29: the scan of format_unified_diff moves forward at every index, to an
\* index not beyond the end, so it ends; every hunk header carries a length
\* len >= 1 and is followed by at least len and at most 2 * len body lines
\* before the next header, so no hunk has an empty body.
C29_ScanAdvancesHunksNonEmpty ==
    \A p \in Range(Paths) :
        ModifiedText(p) =>
            LET part == UnifiedPart(p)
                source_lines == lines(from_utf8_lossy(Before(p)))
                target_lines == lines(from_utf8_lossy(After(p)))
                max == Max(Len(source_lines), Len(target_lines))
            IN /\ \A i \in 0..(max - 1) :
                     line_or_empty(source_lines, i) # line_or_empty(target_lines, i) =>
                        /\ hunk_end(source_lines, target_lines, i) > i
                        /\ hunk_end(source_lines, target_lines, i) <= max
               /\ \A h \in HeaderPositions(part) :
                     \E len \in 1..ScanLen(p) :
                        /\ part[h][4] = ToString(len)
                        /\ part[h][8] = ToString(len)
                        /\ BodyLinesAfter(part, h) >= len
                        /\ BodyLinesAfter(part, h) <= 2 * len
               /\ part # <<>> => IsHunkHeader(part[1])

\* lines "a", "a" against "", "aa": one hunk of length 2 with three body
\* lines, "-a", then "-a" and "+aa"
C29_Witness ==
    /\ dpc = "returned"
    /\ parent_tree["a.txt"] = File(<<97, 10, 97>>, FALSE)
    /\ tree["a.txt"] = File(<<10, 97, 97>>, FALSE)
    /\ UnifiedPart("a.txt") =
          <<HunkHeaderOf(0, 2), <<"-", "a">>, <<"-", "a">>, <<"+", "a", "a">> >>

-----------------------------------------------------------------------------
(* Properties of the sections of deleted files, symlinks and type changes *)

DeletedHeader(p) ==
    << <<"diff --git ", "a/", p, " ", "b/", p>>, <<"deleted file mode 100644">>,
       <<"--- ", "a/", p>>, <<"+++ ", "/dev/null">> >>

IsDeletedFile(p) == IsFile(parent_tree[p]) /\ tree[p] = Absent

\* C25 as stated: the section of every deleted file starts with the four
\* header lines; after them comes "Binary file <path> deleted" and nothing
\* else for binary content, the whole-file hunk for text.
C25_DeletedHeaderFirstAlways ==
    \A p \in Range(Paths) :
        (Formatted(p) /\ IsDeletedFile(p)) =>
            /\ Len(emitted[p]) >= 5
            /\ SubSeq(emitted[p], 1, 4) = DeletedHeader(p)
            /\ IF IsBinaryFile(parent_tree[p])
                 THEN AfterHeader(emitted[p]) = << <<"Binary file ", p, " ", "deleted">> >>
                 ELSE emitted[p][5][1] = "@@ -"

\* C25, amended: the content of a deleted file is read and classified before
\* anything is written.  For text the four header lines come first and the
\* whole-file hunk follows; for binary content the section is the one line
\* "Binary file <path> deleted" and has no header line.
C25_DeletedHeaderFirstForText ==
    \A p \in Range(Paths) :
        (Formatted(p) /\ IsDeletedFile(p)) =>
            /\ reads[p] = 1
            /\ IF IsBinaryFile(parent_tree[p])
                 THEN emitted[p] = << <<"Binary file ", p, " ", "deleted">> >>
                 ELSE /\ Len(emitted[p]) >= 5
                      /\ SubSeq(emitted[p], 1, 4) = DeletedHeader(p)
                      /\ emitted[p][5] =
                           <<"@@ -", "1", ",", ToString(NumLines(parent_tree[p].id.blob)),
                             " +", "0", ",", "0", " @@">>
                      /\ \A i \in 6..Len(emitted[p]) : emitted[p][i][1] = "-"

\* a deleted binary file: one line, no header
C25_Witness ==
    /\ dpc = "returned"
    /\ parent_tree["a.txt"] = File(<<97, 0>>, FALSE)
    /\ tree["a.txt"] = Absent
    /\ reads["a.txt"] = 1
    /\ emitted["a.txt"] = << <<"Binary file ", "a.txt", " ", "deleted">> >>

IsSymlink(v) == v.kind = "Symlink"

TargetText(v) == [i \in 1..Len(v.id.blob) |-> utf8_char(v.id.blob[i])]

\* C26: a path that is a file on one side and a symlink on the other gets the
\* diff --git line, the ---/+++ lines and "File type changed", and nothing is
\* read for it; a symlink whose target changed gets the same three lines,
\* "@@ -1 +1 @@", "-<old target>" and "+<new target>".
C26_TypeChangeAndSymlinkSections ==
    \A p \in Range(Paths) :
        Formatted(p) =>
            LET b == parent_tree[p]
                a == tree[p]
                head == << <<"diff --git ", "a/", p, " ", "b/", p>>,
                           <<"--- ", "a/", p>>, <<"+++ ", "b/", p>> >>
            IN /\ ((IsFile(b) /\ IsSymlink(a)) \/ (IsSymlink(b) /\ IsFile(a))) =>
                    /\ emitted[p] = head \o << <<"File type changed">> >>
                    /\ reads[p] = 0
               /\ (IsSymlink(b) /\ IsSymlink(a) /\ b # a) =>
                    emitted[p] = head \o << <<"@@ -1 +1 @@">>,
                                            <<"-">> \o TargetText(b),
                                            <<"+">> \o TargetText(a) >>

\* a binary file replaced by a symlink: four lines, nothing read
C26_Witness ==
    /\ dpc = "returned"
    /\ parent_tree["a.txt"] = File(<<0>>, TRUE)
    /\ tree["a.txt"] = Symlink(<<120>>)
    /\ reads["a.txt"] = 0
    /\ Len(emitted["a.txt"]) = 4
    /\ emitted["a.txt"][4] = <<"File type changed">>

IsResolved(v) == v.kind # "Conflict"

\* C27: every path whose two values are resolved and differ has a non-empty
\* section; in particular an added and a deleted symlink have one.
C27_EveryResolvedChangeHasSection ==
    \A p \in Range(Paths) :
        (Formatted(p) /\ IsResolved(parent_tree[p]) /\ IsResolved(tree[p])
            /\ parent_tree[p] # tree[p]) => emitted[p] # <<>>

\* a symlink was added and the diff that is returned is empty
C27_AddedSymlinkLeftOut ==
    /\ dpc = "returned"
    /\ parent_tree["a.txt"] = Absent
    /\ tree["a.txt"] = Symlink(<<120>>)
    /\ parent_tree["b.txt"] = tree["b.txt"]
    /\ diff_outcome = DiffOk(<<>>)

-----------------------------------------------------------------------------
(* Properties of the transcript *)

\* C30: every step of the interactive loop leaves the transcript as it is or
\* appends to it.  A step that writes to the repository, opens the editor or
\* aborts leaves it as it is; a step that sends a request sends the whole
\* transcript, which extends the transcript of the request before it; the
\* request of a Revise is sent after exactly two messages were appended, the
\* assistant turn with the current message and the user turn with the
\* instruction.
C30_TranscriptOnlyGrows ==
    [][/\ IsPrefix(messages, messages')
       /\ (VcsWritten \/ edits' # edits \/ exit_by' = "Abort") => messages' = messages
       /\ n_requests' # n_requests =>
             /\ n_requests' = n_requests + 1
             /\ last_request' = messages'
             /\ IsPrefix(last_request, last_request')
             /\ apc = "prompt" =>
                   messages' = messages \o <<assistant(message), user(instruction')>>
       /\ n_requests' = n_requests => last_request' = last_request]_vars

\* the third request, after two revisions of a transcript of two messages
C30_Witness ==
    /\ n_requests = 3
    /\ Len(messages) = 6
    /\ last_request = messages
    /\ messages[3].role = "assistant" /\ messages[4].role = "user"
    /\ messages[5].role = "assistant" /\ messages[6].role = "user"

====
